---- MODULE Spec2Model ----
(***************************************************************************)
(* The MCP gateway of planka-mcp: the stdio read loop (Server.StartStdio), *)
(* the HTTP handler with its session tracker (httpServer), the shared      *)
(* dispatcher (Server.handleMCPRequest) and the tool dispatcher            *)
(* (Server.callTool).                                                      *)
(*                                                                         *)
(* A process serves exactly one transport; Init chooses it.  Writes to the *)
(* output stream are taken to succeed.  Character strings that the code    *)
(* concatenates (the session key) are sequences of characters.             *)
(***************************************************************************)
EXTENDS Integers, Sequences, FiniteSets, TLC

(* ---------------------------- bounds ---------------------------------- *)

\* number of messages the stdio loop reads in a run
MaxStdioReqs == 3

\* number of HTTP requests accepted in a run
MaxHttpReqs == 2

\* concurrent HTTP request goroutines
Workers == {"w1", "w2"}

(* ------------------------- JSON values -------------------------------- *)

\* The "id" member as it stands on the wire.  A number is hi * 2^53 + lo.
AbsentId == [k |-> "absent", hi |-> 0, lo |-> 0]

NullId == [k |-> "null", hi |-> 0, lo |-> 0]

NumId(hi, lo) == [k |-> "num", hi |-> hi, lo |-> lo]

WireIds == {AbsentId, NumId(0, 1), NumId(1, 1)}

\* A JSON number decoded into interface{} is a float64: 53 bits of mantissa,
\* round to nearest, ties to even.  Below 2^53 every integer is exact; in
\* [2^53, 2^54) only the even ones are.
Float64(n) ==
    IF n.hi = 0 \/ n.lo % 2 = 0 THEN n
    ELSE IF (n.lo - 1) % 4 = 0 THEN [n EXCEPT !.lo = n.lo - 1]
    ELSE [n EXCEPT !.lo = n.lo + 1]

\* id, _ := request["id"] after json.Decoder.Decode into map[string]interface{}:
\* nil for an absent or null member, a float64 for a number.
DecodeId(raw) ==
    IF raw.k \in {"absent", "null"} THEN NullId
    ELSE IF raw.k = "num" THEN Float64(raw)
    ELSE raw

(* --------------------------- requests --------------------------------- *)

\* request["method"] absent or not a string
MissingMethod == "<missing>"

WireMethods ==
    {"initialize", "notifications/initialized", "tools/list", "tools/call",
     "invalid_method", MissingMethod}

\* request["params"]: absent, an object without "name", or a call of a tool
\* with its arguments object
NoParams == [shape |-> "none", name |-> "", arguments |-> <<>>]

NoName == [shape |-> "noname", name |-> "", arguments |-> <<>>]

Call(name, arguments) == [shape |-> "call", name |-> name, arguments |-> arguments]

WireParams ==
    {NoParams, NoName, Call("no_such_tool", <<>>),
     Call("get_project", <<>>),
     Call("get_project", [projectId |-> [t |-> "string", s |-> "P1", n |-> 0]])}

\* A body that is not a JSON object
Malformed == [json |-> FALSE, method |-> MissingMethod, id |-> AbsentId, params |-> NoParams]

Bodies ==
    {Malformed} \cup
    {[json |-> TRUE, method |-> m, id |-> i, params |-> p] :
        m \in WireMethods \ {"tools/call"}, i \in WireIds, p \in {NoParams}} \cup
    {[json |-> TRUE, method |-> "tools/call", id |-> i, params |-> p] :
        i \in WireIds, p \in WireParams}

\* no message read yet
NoBody == [json |-> FALSE, method |-> "", id |-> AbsentId, params |-> NoParams]

\* decoder.Decode(&request): the map the handlers read
DecodeRequest(body) == [method |-> body.method, id |-> DecodeId(body.id), params |-> body.params]

\* method, _ := request["method"].(string)
MethodOf(request) == IF request.method = MissingMethod THEN "" ELSE request.method

(* --------------------------- envelopes -------------------------------- *)

InternalErrorCode == -32603

NoError == [code |-> 0, message |-> <<>>]

NoResult == [type |-> "none"]

\* "result": nil
NullResult == [type |-> "null"]

Envelope(members, result, error, id) ==
    [members |-> members, result |-> result, error |-> error, id |-> id]

\* an initialize result announcing another protocol revision
buildInitializeResponseOther(id) ==
    Envelope({"jsonrpc", "result", "id"},
             [type |-> "initialize",
              protocolVersion |-> "2025-03-26",
              capabilities |-> [tools |-> {}],
              serverInfo |-> [name |-> "planka-mcp", version |-> "1.0.0"]],
             NoError, id)

buildInitializeResponse(id) ==
    Envelope({"jsonrpc", "result", "id"},
             [type |-> "initialize",
              protocolVersion |-> "2024-11-05",
              capabilities |-> [tools |-> {}],
              serverInfo |-> [name |-> "planka-mcp", version |-> "1.0.0"]],
             NoError, id)

buildErrorResponse(id, err) ==
    Envelope({"jsonrpc", "error", "id"}, NoResult,
             [code |-> InternalErrorCode, message |-> err], id)

(* ----------------------------- tools ---------------------------------- *)

\* the names Server.callTool routes, in the order of its switch
ToolNames ==
    <<"get_projects", "get_project", "create_project", "get_boards", "get_board",
      "create_board", "get_lists", "get_list", "create_list", "get_cards",
      "get_card", "create_card", "update_card", "delete_card", "move_card",
      "get_tasks", "create_task", "update_task", "delete_task", "get_comments",
      "create_comment", "delete_comment", "get_stopwatch", "start_stopwatch",
      "stop_stopwatch", "reset_stopwatch">>

\* a switch that has cases for the project tools only
IsToolOfProjects(name) == name \in {"get_projects", "get_project", "create_project"}

IsTool(name) == \E i \in 1..Len(ToolNames) : ToolNames[i] = name

\* the arguments a handler asserts to be strings before it calls the client,
\* in the order it checks them
RequiredArgs(name) ==
    CASE name = "get_projects" -> <<>>
      [] name \in {"get_project", "get_boards"} -> <<"projectId">>
      [] name = "create_project" -> <<"name">>
      [] name \in {"get_board", "get_lists"} -> <<"boardId">>
      [] name = "create_board" -> <<"name", "projectId">>
      [] name \in {"get_list", "get_cards"} -> <<"listId">>
      [] name = "create_list" -> <<"name", "boardId">>
      [] name = "create_card" -> <<"name", "listId">>
      [] name = "move_card" -> <<"cardId", "listId">>
      [] name = "create_task" -> <<"name", "cardId">>
      [] name \in {"update_task", "delete_task"} -> <<"taskId">>
      [] name = "create_comment" -> <<"text", "cardId">>
      [] name = "delete_comment" -> <<"commentId">>
      [] OTHER -> <<"cardId">>

(* ------------------------ backing service ----------------------------- *)

\* an entity as the service reports it: its id and the id of its parent
\* (a card's parent is its list)
Item(id, parent) == [id |-> id, parent |-> parent]

\* what the service holds: two projects, three boards, five lists, five cards
Projects == <<Item("P1", ""), Item("P2", "")>>

BoardsOf(projectID) ==
    CASE projectID = "P1" -> <<Item("B1", "P1"), Item("B2", "P1")>>
      [] projectID = "P2" -> <<Item("B3", "P2")>>
      [] OTHER -> <<>>

ListsOf(boardID) ==
    CASE boardID = "B1" -> <<Item("L1", "B1"), Item("L2", "B1")>>
      [] boardID = "B2" -> <<Item("L3", "B2"), Item("L4", "B2")>>
      [] boardID = "B3" -> <<Item("L5", "B3")>>
      [] OTHER -> <<>>

CardsOf(boardID) ==
    CASE boardID = "B1" -> <<Item("C1", "L1"), Item("C2", "L1")>>
      [] boardID = "B2" -> <<Item("C3", "L3"), Item("C4", "L4"), Item("C5", "L3")>>
      [] OTHER -> <<>>

TasksOf(cardID) == IF cardID = "C1" THEN <<Item("T1", "C1")>> ELSE <<>>

CommentsOf(cardID) == IF cardID = "C1" THEN <<Item("M1", "C1")>> ELSE <<>>

\* the ids the service knows under /api/<kind>/
Ids(kind) ==
    CASE kind = "projects" -> {"P1", "P2"}
      [] kind = "boards" -> {"B1", "B2", "B3"}
      [] kind = "lists" -> {"L1", "L2", "L3", "L4", "L5"}
      [] kind = "cards" -> {"C1", "C2", "C3", "C4", "C5"}
      [] kind = "tasks" -> {"T1"}
      [] kind = "comments" -> {"M1"}
      [] OTHER -> {}

\* the board a list belongs to
BoardOfList(listID) ==
    CHOOSE b \in Ids("boards") : \E i \in 1..Len(ListsOf(b)) : ListsOf(b)[i].id = listID

\* How the service answers during one tool call: down (nothing answers),
\* the endpoint shapes it does not serve as JSON, the paths whose GET fails,
\* the (path, key) pairs whose "included" bundle lacks the key, and whether
\* list items come without a boardId.
Svc(unsupported, fail, nokey, blank) ==
    [down |-> FALSE, unsupported |-> unsupported, fail |-> fail,
     nokey |-> nokey, blank |-> blank]

SvcOk == Svc({}, {}, {}, FALSE)

SvcDown == [SvcOk EXCEPT !.down = TRUE]

\* /api/lists/{id} and /api/cards/{id}/comments are the shapes the client
\* expects to be answered with HTML
Shape(path) ==
    IF Len(path) = 2 /\ path[1] = "lists" THEN "lists"
    ELSE IF Len(path) = 3 /\ path[3] = "comments" THEN "comments"
    ELSE ""

\* Client.doRequest / Client.get return an error: transport failure, status
\* >= 400 (unknown id), or a body that is not JSON
Fails(svc, method, path) ==
    \/ svc.down
    \/ Len(path) >= 2 /\ path[2] \notin Ids(path[1])
    \/ method = "GET" /\ (path \in svc.fail \/ Shape(path) \in svc.unsupported)

(* ------------------------------ client -------------------------------- *)

\* a decoded JSON value of an arguments object or a request body
Str(s) == [t |-> "string", s |-> s, n |-> 0]

Num(n) == [t |-> "number", s |-> "", n |-> n]

Bool(b) == [t |-> "bool", s |-> "", n |-> IF b THEN 1 ELSE 0]

\* an object without members; a request without a body
NoArgs == <<>>

\* one request to the backing service
Req(method, path, body) == [method |-> method, path |-> path, body |-> body]

\* Go values a client function returns: a slice, a nil slice, a struct
Slice(items) == [go |-> "slice", items |-> items]

NilSlice == [go |-> "nil", items |-> <<>>]

Struct(item) == [go |-> "struct", items |-> <<item>>]

None == [go |-> "none", items |-> <<>>]

\* (value, error) of a client function, with the requests it issued
Res(err, val, calls) == [err |-> err, val |-> val, calls |-> calls]

\* Client.get of one entity: GetProject, GetBoard, GetList, GetCard, GetStopwatch
GetItem(svc, path) ==
    IF Fails(svc, "GET", path) THEN Res(TRUE, None, <<Req("GET", path, NoArgs)>>)
    ELSE Res(FALSE, Struct(Item(path[2], "")), <<Req("GET", path, NoArgs)>>)

\* Client.post / Client.patch: the service echoes the entity
Send(svc, method, path, body) ==
    IF Fails(svc, method, path) THEN Res(TRUE, None, <<Req(method, path, body)>>)
    ELSE Res(FALSE, Struct(Item("item", "")), <<Req(method, path, body)>>)

\* Client.delete
Delete(svc, path) ==
    Res(Fails(svc, "DELETE", path), None, <<Req("DELETE", path, NoArgs)>>)

\* a parent whose bundle lacks the key answers with an error
IncludedStrict(svc, path, key, items) ==
    IF Fails(svc, "GET", path) \/ <<path, key>> \in svc.nokey
    THEN Res(TRUE, None, <<Req("GET", path, NoArgs)>>)
    ELSE Res(FALSE, Slice(items), <<Req("GET", path, NoArgs)>>)

\* GetBoards, GetLists, GetTasks: fetch the parent, read resp.Included[key];
\* an absent key is []X{}
Included(svc, path, key, items) ==
    IF Fails(svc, "GET", path) THEN Res(TRUE, None, <<Req("GET", path, NoArgs)>>)
    ELSE IF <<path, key>> \in svc.nokey
         THEN Res(FALSE, Slice(<<>>), <<Req("GET", path, NoArgs)>>)
    ELSE Res(FALSE, Slice(items), <<Req("GET", path, NoArgs)>>)

GetProjects(svc) ==
    IF Fails(svc, "GET", <<"projects">>)
    THEN Res(TRUE, None, <<Req("GET", <<"projects">>, NoArgs)>>)
    ELSE Res(FALSE, Slice(Projects), <<Req("GET", <<"projects">>, NoArgs)>>)

GetBoards(svc, projectID) ==
    Included(svc, <<"projects", projectID>>, "boards", BoardsOf(projectID))

GetLists(svc, boardID) ==
    Included(svc, <<"boards", boardID>>, "lists", ListsOf(boardID))

GetTasks(svc, cardID) ==
    Included(svc, <<"cards", cardID>>, "tasks", TasksOf(cardID))

\* a filter that keeps every card of the board
KeepAll(cards, listID) == cards

\* for _, card := range allCards { if card.ListID == listID { append } }
FilterByList(cards, listID) == SelectSeq(cards, LAMBDA card : card.parent = listID)

\* var filteredCards []Card; append(...): nil unless a card was appended
Appended(items) == IF items = <<>> THEN NilSlice ELSE Slice(items)

\* GetCards, from "Now get the board with included cards" on
BoardCards(svc, boardID, listID, calls) ==
    LET path == <<"boards", boardID>>
        all == calls \o <<Req("GET", path, NoArgs)>>
    IN  IF Fails(svc, "GET", path) THEN Res(TRUE, None, all)
        ELSE IF <<path, "cards">> \in svc.nokey THEN Res(FALSE, Slice(<<>>), all)
        ELSE Res(FALSE, Appended(FilterByList(CardsOf(boardID), listID)), all)

HasList(lists, listID) == \E j \in 1..Len(lists) : lists[j].id = listID

\* a search that adopts the first board it can list
AdoptsAny(lists, listID) == lists # <<>>

\* for _, list := range lists { if list.ID == listID { boardID = board.ID } }
Adopts(lists, listID) == HasList(lists, listID)

\* what a search came to: the board it adopted ("" for none) and the
\* requests it issued
Found(boardID, calls) == [boardID |-> boardID, calls |-> calls]

\* one pass of "for _, board := range boards": lists is GetLists of the
\* board (continue on error), rest is what the passes after it come to
BoardPass(lists, boardID, listID, rest) ==
    IF ~lists.err /\ Adopts(lists.val.items, listID) THEN Found(boardID, lists.calls)
    ELSE Found(rest.boardID, lists.calls \o rest.calls)

\* the loop over one project's boards
RECURSIVE SearchBoards(_, _, _, _)
SearchBoards(svc, boards, i, listID) ==
    IF i > Len(boards) THEN Found("", <<>>)
    ELSE BoardPass(GetLists(svc, boards[i].id), boards[i].id, listID,
                   SearchBoards(svc, boards, i + 1, listID))

\* one pass of "for _, project := range projects": boards is GetBoards of
\* the project (continue on error), found the search of its boards, rest
\* what the passes after it come to
ProjectPass(boards, found, rest) ==
    IF boards.err THEN Found(rest.boardID, boards.calls \o rest.calls)
    ELSE IF found.boardID # "" THEN Found(found.boardID, boards.calls \o found.calls)
    ELSE Found(rest.boardID, boards.calls \o found.calls \o rest.calls)

\* the loop over the projects
RECURSIVE SearchProjects(_, _, _, _)
SearchProjects(svc, projects, i, listID) ==
    IF i > Len(projects) THEN Found("", <<>>)
    ELSE ProjectPass(GetBoards(svc, projects[i].id),
                     SearchBoards(svc, GetBoards(svc, projects[i].id).val.items, 1, listID),
                     SearchProjects(svc, projects, i + 1, listID))

\* GetCards once GET /api/lists/{id} failed: p is GetProjects, found the
\* search over its projects; calls are the requests issued so far
FallbackCards(svc, listID, calls, p, found) ==
    IF p.err THEN Res(TRUE, None, calls \o p.calls)
    ELSE IF found.boardID = ""
         THEN Res(FALSE, Slice(<<>>), calls \o p.calls \o found.calls)
    ELSE BoardCards(svc, found.boardID, listID, calls \o p.calls \o found.calls)

GetCards(svc, listID) ==
    IF ~Fails(svc, "GET", <<"lists", listID>>)
    THEN IF svc.blank THEN Res(FALSE, Slice(<<>>), <<Req("GET", <<"lists", listID>>, NoArgs)>>)
         ELSE BoardCards(svc, BoardOfList(listID), listID,
                         <<Req("GET", <<"lists", listID>>, NoArgs)>>)
    ELSE FallbackCards(svc, listID, <<Req("GET", <<"lists", listID>>, NoArgs)>>,
                       GetProjects(svc),
                       SearchProjects(svc, GetProjects(svc).val.items, 1, listID))

GetComments(svc, cardID) ==
    LET first == <<Req("GET", <<"cards", cardID, "comments">>, NoArgs)>> IN
    IF ~Fails(svc, "GET", <<"cards", cardID, "comments">>)
    THEN Res(FALSE, Slice(CommentsOf(cardID)), first)
    ELSE LET r == Included(svc, <<"cards", cardID>>, "comments", CommentsOf(cardID))
         IN  Res(r.err, r.val, first \o r.calls)

DefaultPosition == 65535

\* a client that sends the position it was given
PositionAsGiven(position) == position

\* position := req.Position; if position == 0 { position = 65535 }
PositionOrDefault(position) == IF position = 0 THEN DefaultPosition ELSE position

\* if req.Description != "" { requestBody["description"] = req.Description }
NonEmpty(key, text) == IF text # "" THEN key :> Str(text) ELSE NoArgs

\* CreateBoard, CreateList, CreateCard, CreateTask: the parent id goes into
\* the path, the body is built member by member
Create(svc, parent, parentID, kind, name, description, position, dueDate) ==
    Send(svc, "POST", <<parent, parentID, kind>>,
         ("name" :> Str(name)) @@ ("position" :> Num(PositionOrDefault(position)))
            @@ NonEmpty("description", description) @@ NonEmpty("dueDate", dueDate))

\* func (c *Client) MoveCard: ListID: &listID, Position: &position
MoveCard(svc, cardID, listID, position) ==
    Send(svc, "PATCH", <<"cards", cardID>>,
         ("listId" :> Str(listID)) @@ ("position" :> Num(position)))

(* ----------------------------- handlers ------------------------------- *)

\* v, ok := args[key].(string) / .(float64) / .(bool)
Is(arguments, key, t) == key \in DOMAIN arguments /\ arguments[key].t = t

\* the text of a string argument, "" when the assertion fails
Text(arguments, key) == IF Is(arguments, key, "string") THEN arguments[key].s ELSE ""

\* the value of a number argument, 0 when the assertion fails
Number(arguments, key) == IF Is(arguments, key, "number") THEN arguments[key].n ELSE 0

\* if v, ok := args[key].(T); ok { req.Field = &v }
Pointer(arguments, key, t) ==
    IF Is(arguments, key, t) THEN key :> arguments[key] ELSE NoArgs

\* the texts time.Parse(time.RFC3339, _) accepts among those a caller sends
ParsesRFC3339(text) == text = "2024-01-01T00:00:00Z"

\* handleCreateList: if pos, ok := args["position"].(float64); ok && pos > 0
ListPosition(arguments) ==
    IF Number(arguments, "position") > 0 THEN Number(arguments, "position")
    ELSE DefaultPosition

\* handleMoveCard: position := 0.0, replaced by a number argument
handleMoveCard(svc, cardID, arguments) ==
    MoveCard(svc, cardID, Text(arguments, "listId"), Number(arguments, "position"))

\* json.MarshalIndent of what the client returned
MarshalIndent(val) ==
    [json |-> CASE val.go = "slice" -> "array"
                [] val.go = "nil" -> "null"
                [] val.go = "struct" -> "object"
                [] OTHER -> "success",
     items |-> val.items]

NoText == [json |-> "", items |-> <<>>]

\* (string, error) of a handler, with the backing-service requests issued
ToolOk(text, calls) == [err |-> FALSE, text |-> text, message |-> <<>>, calls |-> calls]

ToolErr(message, calls) ==
    [err |-> TRUE, text |-> NoText, message |-> message, calls |-> calls]

\* the client call a handler makes once its required arguments are asserted
clientCall(name, arguments, svc) ==
    CASE name = "get_projects" -> GetProjects(svc)
      [] name = "get_project" -> GetItem(svc, <<"projects", Text(arguments, "projectId")>>)
      [] name = "create_project" ->
            Send(svc, "POST", <<"projects">>,
                 ("name" :> arguments["name"])
                    @@ NonEmpty("description", Text(arguments, "description")))
      [] name = "get_boards" -> GetBoards(svc, Text(arguments, "projectId"))
      [] name = "get_board" -> GetItem(svc, <<"boards", Text(arguments, "boardId")>>)
      [] name = "create_board" ->
            Create(svc, "projects", Text(arguments, "projectId"), "boards",
                   Text(arguments, "name"), Text(arguments, "description"), 0, "")
      [] name = "get_lists" -> GetLists(svc, Text(arguments, "boardId"))
      [] name = "get_list" -> GetItem(svc, <<"lists", Text(arguments, "listId")>>)
      [] name = "create_list" ->
            Create(svc, "boards", Text(arguments, "boardId"), "lists",
                   Text(arguments, "name"), "", ListPosition(arguments), "")
      [] name = "get_cards" -> GetCards(svc, Text(arguments, "listId"))
      [] name = "get_card" -> GetItem(svc, <<"cards", Text(arguments, "cardId")>>)
      [] name = "create_card" ->
            Create(svc, "lists", Text(arguments, "listId"), "cards",
                   Text(arguments, "name"), Text(arguments, "description"),
                   Number(arguments, "position"), Text(arguments, "dueDate"))
      [] name = "update_card" ->
            Send(svc, "PATCH", <<"cards", Text(arguments, "cardId")>>,
                 Pointer(arguments, "name", "string")
                    @@ Pointer(arguments, "description", "string")
                    @@ Pointer(arguments, "listId", "string")
                    @@ Pointer(arguments, "position", "number")
                    @@ Pointer(arguments, "dueDate", "string"))
      [] name = "delete_card" -> Delete(svc, <<"cards", Text(arguments, "cardId")>>)
      [] name = "move_card" -> handleMoveCard(svc, Text(arguments, "cardId"), arguments)
      [] name = "get_tasks" -> GetTasks(svc, Text(arguments, "cardId"))
      [] name = "create_task" ->
            Create(svc, "cards", Text(arguments, "cardId"), "tasks",
                   Text(arguments, "name"), "", Number(arguments, "position"), "")
      [] name = "update_task" ->
            Send(svc, "PATCH", <<"tasks", Text(arguments, "taskId")>>,
                 Pointer(arguments, "name", "string")
                    @@ Pointer(arguments, "isCompleted", "bool")
                    @@ Pointer(arguments, "position", "number"))
      [] name = "delete_task" -> Delete(svc, <<"tasks", Text(arguments, "taskId")>>)
      [] name = "get_comments" -> GetComments(svc, Text(arguments, "cardId"))
      [] name = "create_comment" ->
            Send(svc, "POST", <<"comments">>,
                 ("text" :> arguments["text"]) @@ ("cardId" :> arguments["cardId"]))
      [] name = "delete_comment" ->
            Delete(svc, <<"comments", Text(arguments, "commentId")>>)
      [] name = "get_stopwatch" ->
            GetItem(svc, <<"cards", Text(arguments, "cardId"), "stopwatch">>)
      [] OTHER ->
            Send(svc, "POST",
                 <<"cards", Text(arguments, "cardId"), "stopwatch",
                   CASE name = "start_stopwatch" -> "start"
                     [] name = "stop_stopwatch" -> "stop"
                     [] OTHER -> "reset">>,
                 NoArgs)

\* the error a handler returns before it calls the client: the first
\* required argument that is not a string, or a dueDate that does not parse
Rejects(name, arguments) ==
    LET req == RequiredArgs(name)
        missing == {i \in 1..Len(req) : ~Is(arguments, req[i], "string")}
    IN  IF missing # {}
        THEN <<"missing", req[CHOOSE i \in missing : \A j \in missing : i <= j]>>
        ELSE IF /\ name \in {"create_card", "update_card"}
                /\ Is(arguments, "dueDate", "string")
                /\ ~ParsesRFC3339(arguments["dueDate"].s)
             THEN <<"invalid dueDate format">>
        ELSE <<>>

\* a handler that answers with whatever the client returned, error or not
toolResultSwallows(name, rejected, r) ==
    IF rejected # <<>> THEN ToolErr(rejected, <<>>)
    ELSE ToolOk(MarshalIndent(r.val), r.calls)

\* what a handler returns: rejected is the error of its argument
\* assertions, r what the client call returns when it is made
toolResult(name, rejected, r) ==
    IF rejected # <<>> THEN ToolErr(rejected, <<>>)
    ELSE IF r.err THEN ToolErr(<<"upstream", name>>, r.calls)
    ELSE ToolOk(MarshalIndent(r.val), r.calls)

\* a handler: the argument assertions, the client call, json.MarshalIndent
handleTool(name, arguments, svc) ==
    toolResult(name, Rejects(name, arguments), clientCall(name, arguments, svc))

callTool(name, arguments, svc) ==
    IF IsTool(name) THEN handleTool(name, arguments, svc)
    ELSE ToolErr(<<"unknown tool", name>>, <<>>)

\* a descriptor of the catalog: its name and the required list of its
\* inputSchema
Tool(name, required) == [name |-> name, required |-> required]

\* Server.getTools: the descriptors in the order of the slice literal
getTools ==
    <<Tool("get_projects", <<>>),
      Tool("get_project", <<"projectId">>),
      Tool("create_project", <<"name">>),
      Tool("get_boards", <<"projectId">>),
      Tool("get_board", <<"boardId">>),
      Tool("create_board", <<"name", "projectId">>),
      Tool("get_lists", <<"boardId">>),
      Tool("get_list", <<"listId">>),
      Tool("create_list", <<"name", "boardId">>),
      Tool("get_cards", <<"listId">>),
      Tool("get_card", <<"cardId">>),
      Tool("create_card", <<"name", "listId">>),
      Tool("update_card", <<"cardId">>),
      Tool("delete_card", <<"cardId">>),
      Tool("move_card", <<"cardId", "listId">>),
      Tool("get_tasks", <<"cardId">>),
      Tool("create_task", <<"name", "cardId">>),
      Tool("update_task", <<"taskId">>),
      Tool("delete_task", <<"taskId">>),
      Tool("get_comments", <<"cardId">>),
      Tool("create_comment", <<"text", "cardId">>),
      Tool("delete_comment", <<"commentId">>),
      Tool("get_stopwatch", <<"cardId">>),
      Tool("start_stopwatch", <<"cardId">>),
      Tool("stop_stopwatch", <<"cardId">>),
      Tool("reset_stopwatch", <<"cardId">>)>>

\* a tools/list that answers with the catalog back to front
buildToolsListResponseReversed(id) ==
    Envelope({"jsonrpc", "result", "id"},
             [type |-> "tools",
              tools |-> [i \in 1..Len(getTools) |-> getTools[Len(getTools) + 1 - i]]],
             NoError, id)

\* tools/list: tools := s.getTools()
buildToolsListResponse(id) ==
    Envelope({"jsonrpc", "result", "id"}, [type |-> "tools", tools |-> getTools],
             NoError, id)

(* --------------------------- dispatcher ------------------------------- *)

\* (response, error) of a dispatcher function; ran says whether callTool
\* reached a tool handler
Handled(response, ran) ==
    [err |-> FALSE, message |-> <<>>, response |-> response, ran |-> ran]

Failed(message, ran) ==
    [err |-> TRUE, message |-> message,
     response |-> Envelope({}, NoResult, NoError, NullId), ran |-> ran]

\* buildToolsCallResponse from "result, err := s.callTool(name, arguments)" on
toolsCallResponse(name, id, r) ==
    IF r.err THEN Failed(<<"tool call failed">> \o r.message, IsTool(name))
    ELSE Handled(Envelope({"jsonrpc", "result", "id"},
                          [type |-> "content", text |-> r.text], NoError, id),
                 TRUE)

buildToolsCallResponse(request, id, svc) ==
    IF request.params.shape = "none" THEN Failed(<<"missing params in request">>, FALSE)
    ELSE IF request.params.shape = "noname" THEN Failed(<<"missing name in params">>, FALSE)
    ELSE toolsCallResponse(request.params.name, id,
                           callTool(request.params.name, request.params.arguments, svc))

\* Server.handleMCPRequest, shared by both transports
handleMCPRequest(request, svc) ==
    IF request.method = MissingMethod THEN Failed(<<"missing method in request">>, FALSE)
    ELSE IF request.method = "tools/list"
         THEN Handled(buildToolsListResponse(request.id), FALSE)
    ELSE IF request.method = "tools/call"
         THEN buildToolsCallResponse(request, request.id, svc)
    ELSE Failed(<<"unknown method", request.method>>, FALSE)

\* the backing service while the transports are exercised: all up or all down
Upstream == {SvcOk, SvcDown}

\* no tool call made
NoTool ==
    [called |-> FALSE, name |-> "", arguments |-> NoArgs, svc |-> SvcOk,
     res |-> ToolErr(<<>>, <<>>), envelope |-> Envelope({}, NoResult, NoError, NullId)]

(* ----------------------------- state ---------------------------------- *)

VARIABLES
    mode,          \* the transport this process serves: "stdio" or "http"
    initialized,   \* StartStdio's local flag
    stdioState,    \* "running", "returned_nil" or "returned_err"
    stdioReads,    \* messages decoded from stdin so far
    stdoutCount,   \* envelopes written to stdout so far
    stdioLast,     \* the last message read and what the loop did with it
    sessions,      \* httpServer.sessions: session key -> sessionState pointer
    heap,          \* the sessionState objects allocated, by pointer
    hmu,           \* httpServer.mu
    pc,            \* where each HTTP goroutine stands in its handler
    frame,         \* the locals of each HTTP goroutine
    accepted,      \* HTTP requests accepted so far
    out,           \* the HTTP response written by the last step, if any
    tool           \* the tool call made against the backing service, if any

stdioVars == <<initialized, stdioState, stdioReads, stdoutCount, stdioLast>>

httpVars == <<sessions, heap, hmu, pc, frame, accepted, out>>

vars == <<mode, initialized, stdioState, stdioReads, stdoutCount, stdioLast,
          sessions, heap, hmu, pc, frame, accepted, out, tool>>

(* ------------------------- stdio transport ---------------------------- *)

\* what one pass of the loop did: the body read, the outcome, the envelopes
\* it wrote, and whether a tool handler ran
StdioStep(body, outcome, written, ran) ==
    [body |-> body, outcome |-> outcome, written |-> written, ran |-> ran]

StdioCanRead == mode = "stdio" /\ stdioState = "running" /\ stdioReads < MaxStdioReqs

\* decoder.Decode returns io.EOF: break, return nil
StdioEOF ==
    /\ mode = "stdio" /\ stdioState = "running"
    /\ stdioState' = "returned_nil"
    /\ stdioLast' = StdioStep(NoBody, "eof", <<>>, FALSE)
    /\ UNCHANGED <<mode, tool, initialized, stdioReads, stdoutCount, httpVars>>

\* decoder.Decode fails on a malformed message: return the error
StdioDecodeFail ==
    /\ StdioCanRead
    /\ stdioState' = "returned_err"
    /\ stdioLast' = StdioStep(Malformed, "decode_failed", <<>>, FALSE)
    /\ UNCHANGED <<mode, tool, initialized, stdioReads, stdoutCount, httpVars>>

\* method == "initialize": handleInitialize, initialized = true, continue
StdioInitialize ==
    /\ StdioCanRead
    /\ \E body \in Bodies :
        LET request == DecodeRequest(body) IN
        /\ body.json /\ MethodOf(request) = "initialize"
        /\ stdioLast' = StdioStep(body, "initialize",
                                  <<buildInitializeResponse(request.id)>>, FALSE)
    /\ initialized' = TRUE
    /\ stdioReads' = stdioReads + 1
    /\ stdoutCount' = stdoutCount + 1
    /\ UNCHANGED <<mode, tool, stdioState, httpVars>>

\* a server that takes the notification for the handshake
AcknowledgedReady(init) == TRUE

\* the initialized flag after notifications/initialized: neither transport
\* assigns it
Acknowledged(init) == init

\* method == "notifications/initialized": continue
StdioNotification ==
    /\ StdioCanRead
    /\ \E body \in Bodies :
        /\ body.json /\ MethodOf(DecodeRequest(body)) = "notifications/initialized"
        /\ stdioLast' = StdioStep(body, "notification", <<>>, FALSE)
    /\ initialized' = Acknowledged(initialized)
    /\ stdioReads' = stdioReads + 1
    /\ UNCHANGED <<mode, tool, stdioState, stdoutCount, httpVars>>

IsLifecycle(method) == method \in {"initialize", "notifications/initialized"}

\* a loop that lets every request through
StdioRejectsNever(init) == FALSE

\* the guard of "return fmt.Errorf(received request before initialization)"
StdioRejects(init) == ~init

\* any other method while !initialized: return an error
StdioBeforeInit ==
    /\ StdioCanRead
    /\ StdioRejects(initialized)
    /\ \E body \in Bodies :
        /\ body.json /\ ~IsLifecycle(MethodOf(DecodeRequest(body)))
        /\ stdioLast' = StdioStep(body, "before_init", <<>>, FALSE)
    /\ stdioState' = "returned_err"
    /\ stdioReads' = stdioReads + 1
    /\ UNCHANGED <<mode, tool, initialized, stdoutCount, httpVars>>

\* a loop that returns the handler's error
StdioAfterErrorReturns == "returned_err"

\* what the loop does after handleRequest returned an error: log, sendError
\* and go on reading
StdioAfterError == "running"

\* a loop that only logs the error of handleRequest
StdioHandledSilently(body, request, r) ==
    /\ body.json /\ ~IsLifecycle(MethodOf(request))
    /\ IF r.err
       THEN /\ stdioLast' = StdioStep(body, "error", <<>>, r.ran)
            /\ stdioState' = StdioAfterError
       ELSE /\ stdioLast' = StdioStep(body, "result", <<r.response>>, r.ran)
            /\ stdioState' = stdioState

\* s.handleRequest(request, encoder), and s.sendError if it fails
StdioHandled(body, request, r) ==
    /\ body.json /\ ~IsLifecycle(MethodOf(request))
    /\ IF r.err
       THEN /\ stdioLast' = StdioStep(body, "error",
                              <<buildErrorResponse(request.id, r.message)>>, r.ran)
            /\ stdioState' = StdioAfterError
       ELSE /\ stdioLast' = StdioStep(body, "result", <<r.response>>, r.ran)
            /\ stdioState' = stdioState

\* any other method once initialized
StdioHandle ==
    /\ StdioCanRead
    /\ ~StdioRejects(initialized)
    /\ \E body \in Bodies, up \in Upstream :
        StdioHandled(body, DecodeRequest(body), handleMCPRequest(DecodeRequest(body), up))
    /\ stdioReads' = stdioReads + 1
    /\ stdoutCount' = stdoutCount + 1
    /\ UNCHANGED <<mode, tool, initialized, httpVars>>

StartStdio ==
    \/ StdioEOF
    \/ StdioDecodeFail
    \/ StdioInitialize
    \/ StdioNotification
    \/ StdioBeforeInit
    \/ StdioHandle

(* -------------------------- HTTP transport ---------------------------- *)

HttpMethods == {"POST", "GET", "OPTIONS"}

\* header values and the peer address, as character sequences
Tokens == {<<>>, <<"a", "b">>}

RemoteAddrs == {<<"a">>}

UserAgents == {<<"b">>, <<"c">>}

\* httpServer.getSessionID
getSessionID(token, remoteAddr, userAgent) ==
    IF token # <<>> THEN token ELSE remoteAddr \o userAgent

\* sync.RWMutex: the goroutines holding it for reading, and the one holding it
\* for writing ("" when none)
FreeMutex == [readers |-> {}, writer |-> ""]

\* RLock proceeds when no writer holds the mutex
CanRLock(m) == m.writer = ""

\* Lock proceeds when nobody holds the mutex
CanLock(m) == m.writer = "" /\ m.readers = {}

RLock(m, w) == [m EXCEPT !.readers = @ \cup {w}]

RUnlock(m, w) == [m EXCEPT !.readers = @ \ {w}]

Lock(m, w) == [m EXCEPT !.writer = w]

\* an Unlock that leaves the mutex held
UnlockNever(m) == m

Unlock(m) == [m EXCEPT !.writer = ""]

\* &sessionState{initialized: false}
NewSession == [initialized |-> FALSE, mu |-> FreeMutex]

\* a flag that is flipped instead of set
MarkToggled(s) == [s EXCEPT !.initialized = ~@]

\* session.initialized = true
MarkInitialized(s) == [s EXCEPT !.initialized = TRUE]

\* what the handler reads of r besides its body: the method, the
\* X-Session-Token header, the peer address and the User-Agent header
Headers(method, token, remoteAddr, userAgent) ==
    [method |-> method, token |-> token, remoteAddr |-> remoteAddr,
     userAgent |-> userAgent]

\* the handler's locals: the headers of r, sessionID, session (a pointer, 0
\* for nil), the body as received, the decoded request, and the flag read
\* from the session
NoFrame == [r |-> Headers("", <<>>, <<>>, <<>>), sessionID |-> <<>>, session |-> 0,
            body |-> NoBody, request |-> DecodeRequest(NoBody), initialized |-> FALSE]

\* an HTTP response: status line, CORS header, and the envelopes encoded into
\* the body (none for a plain-text or empty body)
\* the body (none for a plain-text or empty body), with the locals of the
\* handler that wrote it
Response(w, httpMethod, fr, hasRequest, status, written, ran) ==
    [w |-> w, httpMethod |-> httpMethod, sessionID |-> fr.sessionID, body |-> fr.body,
     request |-> fr.request, hasRequest |-> hasRequest, initialized |-> fr.initialized,
     status |-> status, cors |-> TRUE, written |-> written, ran |-> ran]

NoOut == [w |-> "", httpMethod |-> "", sessionID |-> <<>>, body |-> NoBody,
          request |-> DecodeRequest(NoBody), hasRequest |-> FALSE, initialized |-> FALSE,
          status |-> 0, cors |-> FALSE, written |-> <<>>, ran |-> FALSE]

StatusOK == 200

StatusBadRequest == 400

StatusMethodNotAllowed == 405

HttpCanAccept(w) == mode = "http" /\ pc[w] = "idle" /\ accepted < MaxHttpReqs

\* corsMiddleware: OPTIONS is answered 200 with the CORS headers and no body
HttpOptions(w) ==
    /\ HttpCanAccept(w)
    /\ accepted' = accepted + 1
    /\ out' = Response(w, "OPTIONS", NoFrame, FALSE, StatusOK, <<>>, FALSE)
    /\ UNCHANGED <<mode, tool, stdioVars, sessions, heap, hmu, pc, frame>>

\* a handler that lets every method through
MethodNotAllowedNever(method) == FALSE

\* if r.Method != "POST"
MethodNotAllowed(method) == method # "POST"

\* handleMCPRequest: r.Method != "POST" is answered 405 in plain text
HttpNotPost(w) ==
    /\ HttpCanAccept(w)
    /\ accepted' = accepted + 1
    /\ \E m \in HttpMethods \ {"OPTIONS"} :
         /\ MethodNotAllowed(m)
         /\ out' = Response(w, m, NoFrame, FALSE, StatusMethodNotAllowed, <<>>, FALSE)
    /\ UNCHANGED <<mode, tool, stdioVars, sessions, heap, hmu, pc, frame>>

\* a POST: sessionID := h.getSessionID(r), then into getOrCreateSession
HttpPost(w) ==
    /\ HttpCanAccept(w)
    /\ accepted' = accepted + 1
    /\ \E m \in HttpMethods \ {"OPTIONS"}, token \in Tokens,
          remoteAddr \in RemoteAddrs, userAgent \in UserAgents :
         /\ ~MethodNotAllowed(m)
         /\ frame' = [frame EXCEPT ![w] =
                        [NoFrame EXCEPT !.r = Headers(m, token, remoteAddr, userAgent),
                                        !.sessionID = getSessionID(token, remoteAddr, userAgent)]]
    /\ pc' = [pc EXCEPT ![w] = "goc_rlock"]
    /\ out' = NoOut
    /\ UNCHANGED <<mode, tool, stdioVars, sessions, heap, hmu>>

\* getOrCreateSession: h.mu.RLock()
GocRLock(w) ==
    /\ mode = "http" /\ pc[w] = "goc_rlock"
    /\ CanRLock(hmu)
    /\ hmu' = RLock(hmu, w)
    /\ pc' = [pc EXCEPT ![w] = "goc_read"]
    /\ out' = NoOut
    /\ UNCHANGED <<mode, tool, stdioVars, sessions, heap, frame, accepted>>

\* a lookup that never finds the key
SessionExistsNever(m, sessionID) == FALSE

\* session, exists := h.sessions[sessionID]
SessionExists(m, sessionID) == sessionID \in DOMAIN m

\* session, exists := h.sessions[sessionID]; h.mu.RUnlock(); if exists return
GocRead(w) ==
    /\ mode = "http" /\ pc[w] = "goc_read"
    /\ hmu' = RUnlock(hmu, w)
    /\ IF SessionExists(sessions, frame[w].sessionID)
       THEN /\ frame' = [frame EXCEPT ![w].session = sessions[frame[w].sessionID]]
            /\ pc' = [pc EXCEPT ![w] = "decode"]
       ELSE /\ frame' = frame
            /\ pc' = [pc EXCEPT ![w] = "goc_lock"]
    /\ out' = NoOut
    /\ UNCHANGED <<mode, tool, stdioVars, sessions, heap, accepted>>

\* h.mu.Lock(); defer h.mu.Unlock()
GocLock(w) ==
    /\ mode = "http" /\ pc[w] = "goc_lock"
    /\ CanLock(hmu)
    /\ hmu' = Lock(hmu, w)
    /\ pc' = [pc EXCEPT ![w] = "goc_recheck"]
    /\ out' = NoOut
    /\ UNCHANGED <<mode, tool, stdioVars, sessions, heap, frame, accepted>>

\* a creation that does not look again once it holds the write lock
RecheckSkipped(m, sessionID) == FALSE

\* the double check under the write lock
Recheck(m, sessionID) == SessionExists(m, sessionID)

\* if session, exists := h.sessions[sessionID]; exists { return session }
GocRecheck(w) ==
    /\ mode = "http" /\ pc[w] = "goc_recheck"
    /\ IF Recheck(sessions, frame[w].sessionID)
       THEN /\ frame' = [frame EXCEPT ![w].session = sessions[frame[w].sessionID]]
            /\ hmu' = Unlock(hmu)
            /\ pc' = [pc EXCEPT ![w] = "decode"]
       ELSE /\ frame' = frame
            /\ hmu' = hmu
            /\ pc' = [pc EXCEPT ![w] = "goc_create"]
    /\ out' = NoOut
    /\ UNCHANGED <<mode, tool, stdioVars, sessions, heap, accepted>>

\* a tracker that hands every key the first sessionState it allocated
FirstPointer(h) == 1

\* the pointer &sessionState{...} yields: an object of its own
NewPointer(h) == Len(h) + 1

\* session = &sessionState{...}; h.sessions[sessionID] = session; return
GocCreate(w) ==
    /\ mode = "http" /\ pc[w] = "goc_create"
    /\ heap' = Append(heap, NewSession)
    /\ sessions' = (frame[w].sessionID :> NewPointer(heap)) @@ sessions
    /\ frame' = [frame EXCEPT ![w].session = NewPointer(heap)]
    /\ hmu' = Unlock(hmu)
    /\ pc' = [pc EXCEPT ![w] = "decode"]
    /\ out' = NoOut
    /\ UNCHANGED <<mode, tool, stdioVars, accepted>>

\* an error path that answers every failure as a bad request
sendHTTPErrorBadRequest(w, fr, hasRequest, err, statusCode, ran) ==
    Response(w, "POST", fr, hasRequest, StatusBadRequest,
             <<buildErrorResponse(IF hasRequest THEN fr.request.id ELSE NullId, err)>>, ran)

\* sendHTTPError: the id of the request when there is one, else nil
sendHTTPError(w, fr, hasRequest, err, statusCode, ran) ==
    Response(w, "POST", fr, hasRequest, statusCode,
             <<buildErrorResponse(IF hasRequest THEN fr.request.id ELSE NullId, err)>>, ran)

\* json.NewDecoder(r.Body).Decode(&request) fails: 400 with an error envelope
HttpDecodeFail(w) ==
    /\ mode = "http" /\ pc[w] = "decode"
    /\ out' = sendHTTPError(w, [frame[w] EXCEPT !.body = Malformed], FALSE,
                            <<"failed to decode request">>, StatusBadRequest, FALSE)
    /\ pc' = [pc EXCEPT ![w] = "idle"]
    /\ frame' = [frame EXCEPT ![w] = NoFrame]
    /\ UNCHANGED <<mode, tool, stdioVars, sessions, heap, hmu, accepted>>

\* the body decodes; the method selects the branch of the handler
HttpDecode(w) ==
    /\ mode = "http" /\ pc[w] = "decode"
    /\ \E body \in Bodies :
        LET request == DecodeRequest(body) IN
        /\ body.json
        /\ frame' = [frame EXCEPT ![w].body = body, ![w].request = request]
        /\ pc' = [pc EXCEPT ![w] =
                    IF MethodOf(request) = "initialize" THEN "init_lock"
                    ELSE IF MethodOf(request) = "notifications/initialized" THEN "notify"
                    ELSE "chk_rlock"]
    /\ out' = NoOut
    /\ UNCHANGED <<mode, tool, stdioVars, sessions, heap, hmu, accepted>>

SessionOf(w) == heap[frame[w].session]

\* initialize: session.mu.Lock()
InitLock(w) ==
    /\ mode = "http" /\ pc[w] = "init_lock"
    /\ CanLock(SessionOf(w).mu)
    /\ heap' = [heap EXCEPT ![frame[w].session].mu = Lock(@, w)]
    /\ pc' = [pc EXCEPT ![w] = "init_set"]
    /\ out' = NoOut
    /\ UNCHANGED <<mode, tool, stdioVars, sessions, hmu, frame, accepted>>

\* session.initialized = true; session.mu.Unlock(); answer with the
\* initialize result
InitSet(w) ==
    /\ mode = "http" /\ pc[w] = "init_set"
    /\ heap' = [heap EXCEPT ![frame[w].session] =
                  [MarkInitialized(@) EXCEPT !.mu = Unlock(@)]]
    /\ out' = Response(w, "POST", frame[w], TRUE, StatusOK,
                       <<buildInitializeResponse(frame[w].request.id)>>, FALSE)
    /\ pc' = [pc EXCEPT ![w] = "idle"]
    /\ frame' = [frame EXCEPT ![w] = NoFrame]
    /\ UNCHANGED <<mode, tool, stdioVars, sessions, hmu, accepted>>

\* an acknowledgement without the result member
buildNotificationAckBare(id) == Envelope({"jsonrpc", "id"}, NullResult, NoError, id)

\* the envelope written for notifications/initialized
buildNotificationAck(id) == Envelope({"jsonrpc", "result", "id"}, NullResult, NoError, id)

\* notifications/initialized: 200 with a null result
HttpNotification(w) ==
    /\ mode = "http" /\ pc[w] = "notify"
    /\ out' = Response(w, "POST", frame[w], TRUE, StatusOK,
                       <<buildNotificationAck(frame[w].request.id)>>, FALSE)
    /\ heap' = [heap EXCEPT ![frame[w].session].initialized = Acknowledged(@)]
    /\ pc' = [pc EXCEPT ![w] = "idle"]
    /\ frame' = [frame EXCEPT ![w] = NoFrame]
    /\ UNCHANGED <<mode, tool, stdioVars, sessions, hmu, accepted>>

\* session.mu.RLock()
ChkRLock(w) ==
    /\ mode = "http" /\ pc[w] = "chk_rlock"
    /\ CanRLock(SessionOf(w).mu)
    /\ heap' = [heap EXCEPT ![frame[w].session].mu = RLock(@, w)]
    /\ pc' = [pc EXCEPT ![w] = "chk_read"]
    /\ out' = NoOut
    /\ UNCHANGED <<mode, tool, stdioVars, sessions, hmu, frame, accepted>>

\* a handler that leaves an uninitialized session as it is
AutoPromotesNever(init, method) == FALSE

\* if !initialized && method != "initialize"
AutoPromotes(init, method) == ~init /\ method # "initialize"

\* initialized := session.initialized; session.mu.RUnlock()
ChkRead(w) ==
    /\ mode = "http" /\ pc[w] = "chk_read"
    /\ frame' = [frame EXCEPT ![w].initialized = SessionOf(w).initialized]
    /\ heap' = [heap EXCEPT ![frame[w].session].mu = RUnlock(@, w)]
    /\ pc' = [pc EXCEPT ![w] =
                IF AutoPromotes(SessionOf(w).initialized, MethodOf(frame[w].request))
                THEN "auto_lock" ELSE "dispatch"]
    /\ out' = NoOut
    /\ UNCHANGED <<mode, tool, stdioVars, sessions, hmu, accepted>>

\* auto-initialize: session.mu.Lock()
AutoLock(w) ==
    /\ mode = "http" /\ pc[w] = "auto_lock"
    /\ CanLock(SessionOf(w).mu)
    /\ heap' = [heap EXCEPT ![frame[w].session].mu = Lock(@, w)]
    /\ pc' = [pc EXCEPT ![w] = "auto_set"]
    /\ out' = NoOut
    /\ UNCHANGED <<mode, tool, stdioVars, sessions, hmu, frame, accepted>>

\* session.initialized = true; session.mu.Unlock()
AutoSet(w) ==
    /\ mode = "http" /\ pc[w] = "auto_set"
    /\ heap' = [heap EXCEPT ![frame[w].session] =
                  [MarkInitialized(@) EXCEPT !.mu = Unlock(@)]]
    /\ pc' = [pc EXCEPT ![w] = "dispatch"]
    /\ out' = NoOut
    /\ UNCHANGED <<mode, tool, stdioVars, sessions, hmu, frame, accepted>>

\* response, err := h.server.handleMCPRequest(request); an error goes out
\* through sendHTTPError with status 200
HttpDispatched(w, r) ==
    IF r.err THEN sendHTTPError(w, frame[w], TRUE, r.message, StatusOK, r.ran)
    ELSE Response(w, "POST", frame[w], TRUE, StatusOK, <<r.response>>, r.ran)

HttpDispatch(w) ==
    /\ mode = "http" /\ pc[w] = "dispatch"
    /\ \E up \in Upstream : out' = HttpDispatched(w, handleMCPRequest(frame[w].request, up))
    /\ pc' = [pc EXCEPT ![w] = "idle"]
    /\ frame' = [frame EXCEPT ![w] = NoFrame]
    /\ UNCHANGED <<mode, tool, stdioVars, sessions, heap, hmu, accepted>>

getOrCreateSession(w) ==
    \/ GocRLock(w)
    \/ GocRead(w)
    \/ GocLock(w)
    \/ GocRecheck(w)
    \/ GocCreate(w)

StartHTTP ==
    \E w \in Workers :
        \/ HttpOptions(w)
        \/ HttpNotPost(w)
        \/ HttpPost(w)
        \/ getOrCreateSession(w)
        \/ HttpDecodeFail(w)
        \/ HttpDecode(w)
        \/ InitLock(w)
        \/ InitSet(w)
        \/ HttpNotification(w)
        \/ ChkRLock(w)
        \/ ChkRead(w)
        \/ AutoLock(w)
        \/ AutoSet(w)
        \/ HttpDispatch(w)

(* ------------------------- specification ------------------------------ *)

Init ==
    /\ mode \in {"stdio", "http"}
    /\ initialized = FALSE
    /\ stdioState = "running"
    /\ stdioReads = 0
    /\ stdoutCount = 0
    /\ stdioLast = StdioStep(NoBody, "none", <<>>, FALSE)
    /\ sessions = <<>>
    /\ heap = <<>>
    /\ hmu = FreeMutex
    /\ pc = [w \in Workers |-> "idle"]
    /\ frame = [w \in Workers |-> NoFrame]
    /\ accepted = 0
    /\ out = NoOut
    /\ tool = NoTool

Next == StartStdio \/ StartHTTP

Spec == Init /\ [][Next]_vars

(* -------------- tool calls against the backing service ---------------- *)

\* an argument the caller leaves out
Absent == [t |-> "absent", s |-> "", n |-> 0]

\* the arguments objects that give each key one of its choices
Pick(choices) ==
    {[k \in {j \in DOMAIN choices : f[j] # Absent} |-> f[k]] :
        f \in {g \in [DOMAIN choices -> UNION {choices[k] : k \in DOMAIN choices}] :
                  \A k \in DOMAIN choices : g[k] \in choices[k]}}

ReadTools ==
    {"get_projects", "get_project", "get_boards", "get_board", "get_lists",
     "get_list", "get_card", "get_tasks", "get_comments", "get_stopwatch"}

WriteTools ==
    {"create_project", "create_board", "create_list", "create_card", "update_card",
     "delete_card", "move_card", "create_task", "update_task", "delete_task",
     "create_comment", "delete_comment", "start_stopwatch", "stop_stopwatch",
     "reset_stopwatch"}

\* the values a caller gives each argument of a tool
ArgChoices(name) ==
    CASE name = "get_project" -> [projectId |-> {Absent, Str("P1"), Str("P9"), Num(1)}]
      [] name = "get_boards" -> [projectId |-> {Absent, Str("P1"), Str("P2"), Num(1)}]
      [] name = "get_board" -> [boardId |-> {Str("B1")}]
      [] name = "get_lists" -> [boardId |-> {Absent, Str("B1"), Str("B3")}]
      [] name = "get_list" -> [listId |-> {Str("L1")}]
      [] name = "get_cards" ->
            [listId |-> {Absent, Num(1), Str("L1"), Str("L2"), Str("L3"), Str("L4"),
                         Str("L5"), Str("L9")}]
      [] name = "get_tasks" -> [cardId |-> {Absent, Str("C1"), Str("C2")}]
      [] name = "get_comments" -> [cardId |-> {Absent, Str("C1"), Str("C2"), Str("C9")}]
      [] name = "create_project" ->
            [name |-> {Absent, Str("n")}, description |-> {Absent, Str("d"), Str("")}]
      [] name = "create_board" ->
            [name |-> {Absent, Str("n"), Num(1)}, projectId |-> {Absent, Str("P1")},
             description |-> {Absent, Str("d")}, position |-> {Absent, Num(2)}]
      [] name = "create_list" ->
            [name |-> {Str("n")}, boardId |-> {Absent, Str("B1")},
             position |-> {Absent, Num(0), Num(2), Num(-1), Str("top")}]
      [] name = "create_card" ->
            [name |-> {Str("n")}, listId |-> {Absent, Str("L1")},
             description |-> {Absent, Str("d")},
             position |-> {Absent, Num(0), Num(2), Str("top")},
             dueDate |-> {Absent, Str("2024-01-01T00:00:00Z"), Str("tomorrow"), Num(1)}]
      [] name = "update_card" ->
            [cardId |-> {Absent, Str("C1"), Str("C9")},
             name |-> {Absent, Str("n"), Num(1)},
             description |-> {Absent, Str("")},
             listId |-> {Absent, Str("L2")},
             position |-> {Absent, Num(0), Num(2), Str("top")},
             dueDate |-> {Absent, Str("2024-01-01T00:00:00Z"), Str("tomorrow")}]
      [] name = "move_card" ->
            [cardId |-> {Absent, Str("C1")}, listId |-> {Absent, Str("L2"), Num(1)},
             position |-> {Absent, Num(0), Num(2), Str("top")}]
      [] name = "create_task" ->
            [name |-> {Absent, Str("n")}, cardId |-> {Absent, Str("C1")},
             position |-> {Absent, Num(0), Num(2), Str("top")}]
      [] name = "update_task" ->
            [taskId |-> {Absent, Str("T1")}, name |-> {Absent, Str("n")},
             isCompleted |-> {Absent, Bool(TRUE), Bool(FALSE), Str("yes")},
             position |-> {Absent, Num(0), Num(2)}]
      [] name = "delete_task" -> [taskId |-> {Absent, Str("T1")}]
      [] name = "create_comment" ->
            [text |-> {Absent, Str("n")}, cardId |-> {Absent, Str("C1")}]
      [] name = "delete_comment" -> [commentId |-> {Absent, Str("M1")}]
      [] OTHER -> [cardId |-> {Absent, Str("C1")}]

CallsOf(name) == IF name = "get_projects" THEN {NoArgs} ELSE Pick(ArgChoices(name))

\* the services get_cards is called against
CardWorlds ==
    {Svc(u, f, k, b) :
        u \in SUBSET {"lists"},
        f \in SUBSET {<<"projects">>, <<"projects", "P1">>, <<"boards", "B1">>,
                      <<"boards", "B2">>},
        k \in SUBSET {<<<<"projects", "P1">>, "boards">>, <<<<"boards", "B1">>, "lists">>,
                      <<<<"boards", "B1">>, "cards">>, <<<<"boards", "B2">>, "cards">>},
        b \in BOOLEAN} \cup {SvcDown}

\* the services the other reading tools are called against
ReadWorlds ==
    {Svc(u, f, k, FALSE) :
        u \in SUBSET {"comments"},
        f \in SUBSET {<<"projects">>, <<"projects", "P1">>, <<"boards", "B1">>,
                      <<"cards", "C1">>},
        k \in SUBSET {<<<<"projects", "P1">>, "boards">>, <<<<"boards", "B1">>, "lists">>,
                      <<<<"cards", "C1">>, "tasks">>,
                      <<<<"cards", "C1">>, "comments">>}} \cup {SvcDown}

\* one tools/call request served by handleMCPRequest: what callTool
\* returned and the envelope the transport writes
Written(id, r) == IF r.err THEN buildErrorResponse(id, r.message) ELSE r.response

Invoke(name, arguments, svc) ==
    [called |-> TRUE, name |-> name, arguments |-> arguments, svc |-> svc,
     res |-> callTool(name, arguments, svc),
     envelope |-> Written(DecodeId(NumId(0, 1)),
                          handleMCPRequest([method |-> "tools/call",
                                            id |-> DecodeId(NumId(0, 1)),
                                            params |-> Call(name, arguments)], svc))]

ToolUnchanged ==
    UNCHANGED <<mode, initialized, stdioState, stdioReads, stdoutCount, stdioLast,
                sessions, heap, hmu, pc, frame, accepted, out>>

CallGetCards ==
    /\ mode = "none" /\ ~tool.called
    /\ \E arguments \in CallsOf("get_cards"), svc \in CardWorlds :
            tool' = Invoke("get_cards", arguments, svc)
    /\ ToolUnchanged

CallRead ==
    /\ mode = "none" /\ ~tool.called
    /\ \E name \in ReadTools, svc \in ReadWorlds :
        \E arguments \in CallsOf(name) : tool' = Invoke(name, arguments, svc)
    /\ ToolUnchanged

CallWrite ==
    /\ mode = "none" /\ ~tool.called
    /\ \E name \in WriteTools, svc \in Upstream :
        \E arguments \in CallsOf(name) : tool' = Invoke(name, arguments, svc)
    /\ ToolUnchanged

CallUnknown ==
    /\ mode = "none" /\ ~tool.called
    /\ \E name \in {"no_such_tool", "get_everything"}, svc \in Upstream :
        \E arguments \in {NoArgs, [cardId |-> Str("C1")]} :
            tool' = Invoke(name, arguments, svc)
    /\ ToolUnchanged

ToolInit ==
    /\ mode = "none"
    /\ initialized = FALSE
    /\ stdioState = "running"
    /\ stdioReads = 0
    /\ stdoutCount = 0
    /\ stdioLast = StdioStep(NoBody, "none", <<>>, FALSE)
    /\ sessions = <<>>
    /\ heap = <<>>
    /\ hmu = FreeMutex
    /\ pc = [w \in Workers |-> "idle"]
    /\ frame = [w \in Workers |-> NoFrame]
    /\ accepted = 0
    /\ out = NoOut
    /\ tool = NoTool

ToolNext == CallGetCards \/ CallRead \/ CallWrite \/ CallUnknown

ToolSpec == ToolInit /\ [][ToolNext]_vars

(* ------------------------------ claims -------------------------------- *)

\* the method of the message the stdio loop read last
StdioLastMethod == MethodOf(DecodeRequest(stdioLast.body))

\* the step reads one more message from stdin
StdioReadsOne == stdioReads' = stdioReads + 1

\* the session stored under the key of the last HTTP response
OutSession == heap[sessions[out.sessionID]]

\* the last step answered a POST whose body decoded
OutAnswersRequest == out.httpMethod = "POST" /\ out.hasRequest

\* C1: on stdio, a request that is neither initialize nor
\* notifications/initialized and is read before any initialize makes
\* StartStdio return an error: nothing is written for it, no tool handler
\* runs for it, and once StartStdio has returned an error nothing more is
\* read or written.
C1_FatalBeforeInit ==
    [][ /\ ( /\ StdioReadsOne
             /\ ~initialized
             /\ ~IsLifecycle(MethodOf(DecodeRequest(stdioLast'.body))) )
           => /\ stdioState' = "returned_err"
              /\ stdoutCount' = stdoutCount
              /\ stdioLast'.written = <<>>
              /\ ~stdioLast'.ran
        /\ stdioState = "returned_err" => UNCHANGED stdioVars ]_vars

\* a tools/call read after a notifications/initialized, with no initialize
\* before it, has ended the loop
C1_Witness ==
    /\ stdioState = "returned_err"
    /\ stdioReads = 2
    /\ ~initialized
    /\ stdioLast.body.json
    /\ StdioLastMethod = "tools/call"
    /\ stdioLast.body.params = Call("get_project", [projectId |-> Str("P1")])

\* the envelope the shared dispatcher yields for a request, whatever the
\* session's flag
DispatchEnvelopes(request) ==
    {IF handleMCPRequest(request, up).err
     THEN buildErrorResponse(request.id, handleMCPRequest(request, up).message)
     ELSE handleMCPRequest(request, up).response : up \in Upstream}

\* C2: on HTTP, a non-lifecycle call is answered with status 200 and the
\* envelope the dispatcher yields for it, also when the session was not
\* initialized when the call read the flag, and the session's flag is true
\* once it is answered.
C2_AutoPromotion ==
    (OutAnswersRequest /\ ~IsLifecycle(MethodOf(out.request)))
        => /\ out.status = StatusOK
           /\ Len(out.written) = 1
           /\ out.written[1] \in DispatchEnvelopes(out.request)
           /\ OutSession.initialized

\* a tools/list on a session that was not initialized got its result
C2_Witness ==
    /\ OutAnswersRequest
    /\ MethodOf(out.request) = "tools/list"
    /\ ~out.initialized
    /\ out.written[1].result = [type |-> "tools", tools |-> getTools]
    /\ OutSession.initialized

\* C3: the initialized flag of a session never goes from true to false, on
\* either transport and under any interleaving; and once the stdio loop is
\* initialized, reading a request never ends it.
C3_Monotonic ==
    [][ /\ \A i \in 1..Len(heap) :
              heap[i].initialized => (i <= Len(heap') /\ heap'[i].initialized)
        /\ initialized => initialized'
        /\ (initialized /\ StdioReadsOne) => stdioState' = "running" ]_vars

\* a second request runs on a session while another request is about to set
\* its flag again
C3_Witness ==
    \E w1, w2 \in Workers :
        /\ w1 # w2
        /\ pc[w1] = "init_set"
        /\ pc[w2] = "dispatch"
        /\ frame[w1].session = frame[w2].session
        /\ heap[frame[w1].session].initialized

\* the result of initialize, member by member
InitializeResult ==
    [type |-> "initialize",
     protocolVersion |-> "2024-11-05",
     capabilities |-> [tools |-> {}],
     serverInfo |-> [name |-> "planka-mcp", version |-> "1.0.0"]]

\* C4: an initialize request, whatever the state of the session, is answered
\* with a result envelope carrying protocol version 2024-11-05, the
\* capabilities {tools: {}} and the server identity, and the session is
\* initialized afterwards.
C4_Initialize ==
    /\ (OutAnswersRequest /\ MethodOf(out.request) = "initialize")
          => /\ out.status = StatusOK
             /\ Len(out.written) = 1
             /\ out.written[1].members = {"jsonrpc", "result", "id"}
             /\ out.written[1].result = InitializeResult
             /\ OutSession.initialized
    /\ (stdioLast.body.json /\ StdioLastMethod = "initialize")
          => /\ Len(stdioLast.written) = 1
             /\ stdioLast.written[1].members = {"jsonrpc", "result", "id"}
             /\ stdioLast.written[1].result = InitializeResult
             /\ initialized
             /\ stdioState = "running"

\* a repeated initialize on stdio: two messages read, two envelopes written,
\* the second one for an initialize
C4_Witness ==
    /\ stdioReads = 2
    /\ stdoutCount = 2
    /\ stdioLast.body.json
    /\ StdioLastMethod = "initialize"
    /\ stdioLast.written[1].result = InitializeResult

\* the goroutines that have returned from getOrCreateSession
HasSession(w) == pc[w] \notin {"idle", "goc_rlock", "goc_read", "goc_lock", "goc_recheck", "goc_create"}

\* C5: for any interleaving of getOrCreateSession calls, one sessionState is
\* allocated per stored key and no more, every caller of a key holds the
\* object stored under it, and a stored entry is never replaced.
C5_ExactlyOnce ==
    /\ [](/\ Len(heap) = Cardinality(DOMAIN sessions)
          /\ \A w \in Workers :
                HasSession(w) =>
                    /\ frame[w].sessionID \in DOMAIN sessions
                    /\ frame[w].session = sessions[frame[w].sessionID])
    /\ [][\A k \in DOMAIN sessions :
              k \in DOMAIN sessions' /\ sessions'[k] = sessions[k]]_vars

\* two callers missed the same key under the read lock; one has created the
\* session, the other holds the write lock and is about to look again
C5_Witness ==
    \E w1, w2 \in Workers :
        /\ w1 # w2
        /\ pc[w1] = "goc_recheck"
        /\ HasSession(w2)
        /\ frame[w1].sessionID = frame[w2].sessionID
        /\ Len(heap) = 1

\* the id a response must carry for a body: the id member as sent, null when
\* the body has none or is no envelope
WireIdOf(body) == IF ~body.json \/ body.id.k = "absent" THEN NullId ELSE body.id

\* C6: every response envelope, result or error, on both transports, carries
\* the id of the request it answers unchanged, and null when the request has
\* no id or could not be parsed.
C6_IdEchoed ==
    /\ \A i \in 1..Len(out.written) : out.written[i].id = WireIdOf(out.body)
    /\ \A i \in 1..Len(stdioLast.written) : stdioLast.written[i].id = WireIdOf(stdioLast.body)

\* an envelope with exactly one of the result and error members
ExactlyOne(e) == ("result" \in e.members) # ("error" \in e.members)

\* C7: every envelope written, on either transport and for every procedure,
\* has exactly one of the members result and error.
C7_ResultXorError ==
    /\ \A i \in 1..Len(out.written) : ExactlyOne(out.written[i])
    /\ \A i \in 1..Len(stdioLast.written) : ExactlyOne(stdioLast.written[i])

\* the acknowledgement of notifications/initialized on HTTP: a result member
\* holding null
C7_Witness ==
    /\ OutAnswersRequest
    /\ MethodOf(out.request) = "notifications/initialized"
    /\ Len(out.written) = 1
    /\ out.written[1].result = NullResult

\* one error envelope, and nothing else, was written
OneError(written) == Len(written) = 1 /\ "error" \in written[1].members

\* C8: every failing request, of every kind and on both transports, is
\* answered with exactly one error envelope.
C8_EveryFailureAnswered ==
    /\ stdioLast.outcome \in {"decode_failed", "before_init", "error"}
          => OneError(stdioLast.written)
    /\ (out.httpMethod = "POST" /\ out.status # 0 /\ ~out.hasRequest)
          => OneError(out.written)
    /\ (OutAnswersRequest /\ MethodOf(out.request) \in {"", "invalid_method"})
          => OneError(out.written)

\* the request answered last names a procedure the dispatcher knows
KnownProcedure(request) == request.method \in {"tools/list", "tools/call"}

\* C9: a failure of a known procedure's handler is answered with an error
\* envelope of code -32603 and ends nothing: the stdio loop is still running
\* and answers the next request it reads; the HTTP session is still
\* initialized and its goroutine is back to serve.
C9_HandlerFailureSurvives ==
    /\ []( /\ ( /\ KnownProcedure(DecodeRequest(stdioLast.body))
                /\ OneError(stdioLast.written) )
              => /\ stdioLast.written[1].error.code = -32603
                 /\ stdioState = "running"
           /\ ( /\ OutAnswersRequest
                /\ KnownProcedure(out.request)
                /\ OneError(out.written) )
              => /\ out.written[1].error.code = -32603
                 /\ out.status = StatusOK
                 /\ OutSession.initialized
                 /\ pc[out.w] = "idle" )
    /\ [][ ( /\ OneError(stdioLast.written)
             /\ StdioReadsOne
             /\ MethodOf(DecodeRequest(stdioLast'.body)) # "notifications/initialized" )
           => /\ stdoutCount' = stdoutCount + 1
              /\ Len(stdioLast'.written) = 1
              /\ stdioState' = "running" ]_vars

\* a tool whose upstream call failed was answered on stdio, and the loop has
\* answered a request after an earlier failure
C9_Witness ==
    /\ stdioReads = 3
    /\ stdoutCount = 3
    /\ stdioLast.ran
    /\ OneError(stdioLast.written)
    /\ stdioLast.written[1].error.message = <<"tool call failed", "upstream", "get_project">>
    /\ stdioState = "running"

\* the JSON-RPC code for "method not found"
MethodNotFoundCode == -32601

\* C10: a request whose method is not a known procedure is answered with an
\* error envelope whose code is the method-not-found code, which is not the
\* code of an internal handler failure.
C10_MethodNotFound ==
    /\ (OutAnswersRequest /\ MethodOf(out.request) = "invalid_method")
          => /\ OneError(out.written)
             /\ out.written[1].error.code = MethodNotFoundCode
             /\ out.written[1].error.code # InternalErrorCode
    /\ (stdioLast.body.json /\ StdioLastMethod = "invalid_method")
          => /\ OneError(stdioLast.written)
             /\ stdioLast.written[1].error.code = MethodNotFoundCode
             /\ stdioLast.written[1].error.code # InternalErrorCode

(* ----------------- claims about the resolution layer ------------------ *)

\* the requests of the tool call made, and those the service failed
ToolCalls == tool.res.calls

FailedCalls ==
    {i \in 1..Len(ToolCalls) : Fails(tool.svc, ToolCalls[i].method, ToolCalls[i].path)}

\* the tool call was answered with an error envelope and no result
ToolAnswerIsError ==
    /\ "error" \in tool.envelope.members
    /\ "result" \notin tool.envelope.members
    /\ tool.envelope.result = NoResult

\* the tool call was answered with a result and no error
ToolAnswerIsResult ==
    /\ "result" \in tool.envelope.members
    /\ "error" \notin tool.envelope.members
    /\ tool.envelope.result.type = "content"

ToolListId == Text(tool.arguments, "listId")

\* the project whose bundle holds the board
ProjectOfBoard(boardID) ==
    CHOOSE p \in Ids("projects") :
        \E i \in 1..Len(BoardsOf(p)) : BoardsOf(p)[i].id = boardID

\* the list is in the lists bundle of a board that enumerating the projects
\* and then their boards reaches
ReachableBySearch(svc, listID) ==
    LET b == BoardOfList(listID)
        p == ProjectOfBoard(b)
    IN  /\ ~Fails(svc, "GET", <<"projects">>)
        /\ ~Fails(svc, "GET", <<"projects", p>>)
        /\ <<<<"projects", p>>, "boards">> \notin svc.nokey
        /\ ~Fails(svc, "GET", <<"boards", b>>)
        /\ <<<<"boards", b>>, "lists">> \notin svc.nokey

\* the same service, answering the direct lookup with the list and its board
WithDirectLookup(svc) == [svc EXCEPT !.unsupported = {}, !.blank = FALSE]

\* get_cards took the fallback search for a list the service holds
ToolSearched ==
    /\ tool.called /\ tool.name = "get_cards"
    /\ ToolListId \in Ids("lists")
    /\ 1 \in FailedCalls

\* C12: when the direct lookup of list L fails and L is in the lists bundle
\* of a board the enumeration reaches, the search adopts the board that owns
\* L (the last request fetches that board) and get_cards answers exactly as
\* it does when the direct lookup succeeds.
C12_FallbackEqualsDirect ==
    (ToolSearched /\ ReachableBySearch(tool.svc, ToolListId)) =>
        /\ ToolCalls[Len(ToolCalls)].path = <<"boards", BoardOfList(ToolListId)>>
        /\ Len(ToolCalls) - 1 \notin FailedCalls
        /\ tool.res.err = callTool("get_cards", tool.arguments, WithDirectLookup(tool.svc)).err
        /\ tool.res.text = callTool("get_cards", tool.arguments, WithDirectLookup(tool.svc)).text

\* the search passed over board B1, found L3 in the second board of the first
\* project and answered with the two cards of L3
C12_Witness ==
    /\ ToolSearched /\ ReachableBySearch(tool.svc, ToolListId)
    /\ ToolListId = "L3"
    /\ Len(ToolCalls) = 6
    /\ ~tool.res.err
    /\ tool.res.text = [json |-> "array", items |-> <<Item("C3", "L3"), Item("C5", "L3")>>]

\* the service holds no card of the list
HoldsNoCards(listID) ==
    \A b \in Ids("boards") : FilterByList(CardsOf(b), listID) = <<>>

\* C13: get_cards for a list without cards succeeds when the service answers
\* every request, and every success of get_cards that carries no card is the
\* same empty collection "[]", whichever path reached it.
C13_EmptyOnEveryPath ==
    (tool.called /\ tool.name = "get_cards" /\ Is(tool.arguments, "listId", "string")) =>
        /\ (HoldsNoCards(ToolListId) /\ FailedCalls = {}) => ~tool.res.err
        /\ (~tool.res.err /\ tool.res.text.items = <<>>)
              => tool.res.text = [json |-> "array", items |-> <<>>]

\* get_cards resolved a board and read the cards of its bundle
ToolReadCards ==
    /\ tool.called /\ tool.name = "get_cards" /\ ~tool.res.err
    /\ Len(ToolCalls) >= 2
    /\ \/ Len(ToolCalls) = 2 /\ FailedCalls = {} /\ ~tool.svc.blank
       \/ /\ 1 \in FailedCalls
          /\ ToolCalls[Len(ToolCalls)].path = ToolCalls[Len(ToolCalls) - 1].path
    /\ Len(ToolCalls) \notin FailedCalls
    /\ <<ToolCalls[Len(ToolCalls)].path, "cards">> \notin tool.svc.nokey

\* the board get_cards fetched last
ToolBoard == ToolCalls[Len(ToolCalls)].path[2]

\* C14: once the owning board is resolved, get_cards(L) answers exactly the
\* cards of that board's bundle whose listId is L: each returned card has
\* listId L and is in the bundle, each bundled card of L is returned, in the
\* bundle's order.
C14_ExactlyCardsOfList ==
    ToolReadCards =>
        LET returned == tool.res.text.items
            bundle == CardsOf(ToolBoard)
        IN  /\ \A i \in 1..Len(returned) :
                 /\ returned[i].parent = ToolListId
                 /\ \E j \in 1..Len(bundle) : bundle[j] = returned[i]
            /\ \A j \in 1..Len(bundle) :
                 bundle[j].parent = ToolListId
                    => \E i \in 1..Len(returned) : returned[i] = bundle[j]
            /\ Len(returned) = Cardinality({j \in 1..Len(bundle) : bundle[j].parent = ToolListId})

\* get_cards of L3 read board B2, whose bundle also holds a card of L4, and
\* returned the two cards of L3
C14_Witness ==
    /\ ToolReadCards
    /\ ToolBoard = "B2" /\ ToolListId = "L3"
    /\ Len(CardsOf(ToolBoard)) = 3
    /\ Len(tool.res.text.items) = 2

\* the bundle key a parent-to-children read looks up
BundleKey(name) ==
    CASE name = "get_boards" -> "boards"
      [] name = "get_lists" -> "lists"
      [] OTHER -> "tasks"

\* a parent-to-children read fetched its parent, whose bundle lacks the key
ToolBundleKeyAbsent ==
    /\ tool.called /\ tool.name \in {"get_boards", "get_lists", "get_tasks"}
    /\ Len(ToolCalls) = 1 /\ FailedCalls = {}
    /\ <<ToolCalls[1].path, BundleKey(tool.name)>> \in tool.svc.nokey

\* C15: get_boards, get_lists and get_tasks whose parent fetch succeeds with
\* a bundle that has no key for the child kind answer with a result holding
\* the empty collection, never with an error.
C15_AbsentKeyIsEmpty ==
    ToolBundleKeyAbsent =>
        /\ ToolAnswerIsResult
        /\ ~tool.res.err
        /\ tool.envelope.result.text = [json |-> "array", items |-> <<>>]

\* get_tasks of card C1 answered with the empty collection because the
\* card's bundle has no tasks key
C15_Witness ==
    /\ ToolBundleKeyAbsent
    /\ tool.name = "get_tasks"
    /\ ToolCalls[1].path = <<"cards", "C1">>
    /\ ToolAnswerIsResult
    /\ tool.res.text.items = <<>>

\* the primitive type getTools declares for an argument
DeclaredType(key) ==
    CASE key = "position" -> "number"
      [] key = "isCompleted" -> "bool"
      [] OTHER -> "string"

WellTyped(arguments) == \A k \in DOMAIN arguments : arguments[k].t = DeclaredType(k)

\* the argument that names the entity, which goes into the request path
IdKey(name) == IF name = "update_task" THEN "taskId" ELSE "cardId"

\* an update or move tool was given arguments of the declared types and sent
\* its patch
ToolPatched ==
    /\ tool.called /\ tool.name \in {"update_card", "update_task", "move_card"}
    /\ WellTyped(tool.arguments)
    /\ Len(ToolCalls) = 1
    /\ ToolCalls[1].method = "PATCH"

\* C16: the patch update_card, update_task and move_card send holds exactly
\* the fields the caller supplied, with the values supplied; a field the
\* caller omitted is not in the patch.
C16_PatchIsWhatWasSupplied ==
    ToolPatched =>
        /\ DOMAIN ToolCalls[1].body = DOMAIN tool.arguments \ {IdKey(tool.name)}
        /\ \A k \in DOMAIN ToolCalls[1].body : ToolCalls[1].body[k] = tool.arguments[k]

\* a required argument of the tool is not among the arguments
LacksRequired(name, arguments) ==
    \E i \in 1..Len(RequiredArgs(name)) : RequiredArgs(name)[i] \notin DOMAIN arguments

\* C17: a call of a registered tool whose arguments lack a required key, or
\* hold a declared field with a value of another primitive type, is answered
\* with an error and no backing-service request is issued.
C17_RejectedBeforeAnyCall ==
    ( /\ tool.called /\ IsTool(tool.name)
      /\ LacksRequired(tool.name, tool.arguments) \/ ~WellTyped(tool.arguments) )
        => ToolAnswerIsError /\ ToolCalls = <<>>

CreateTools == {"create_board", "create_list", "create_card", "create_task"}

\* the argument naming the parent, and the path the entity is created under
ParentKey(name) ==
    CASE name = "create_board" -> "projectId"
      [] name = "create_list" -> "boardId"
      [] name = "create_card" -> "listId"
      [] OTHER -> "cardId"

CreatePath(name, parentID) ==
    CASE name = "create_board" -> <<"projects", parentID, "boards">>
      [] name = "create_list" -> <<"boards", parentID, "lists">>
      [] name = "create_card" -> <<"lists", parentID, "cards">>
      [] OTHER -> <<"cards", parentID, "tasks">>

\* a creation tool was called without a position, its other arguments being
\* present as needed and acceptable
ToolCreatesWithoutPosition ==
    /\ tool.called /\ tool.name \in CreateTools
    /\ "position" \notin DOMAIN tool.arguments
    /\ ~LacksRequired(tool.name, tool.arguments)
    /\ WellTyped(tool.arguments)
    /\ "dueDate" \in DOMAIN tool.arguments => ParsesRFC3339(tool.arguments["dueDate"].s)

\* C18: create_board, create_list, create_card and create_task called
\* without a position are not rejected: they issue one POST whose body has
\* position 65535, whose path holds the parent id, and whose body does not
\* hold the parent id; the call succeeds when the service accepts the POST.
C18_SentinelPosition ==
    ToolCreatesWithoutPosition =>
        /\ Len(ToolCalls) = 1
        /\ ToolCalls[1].method = "POST"
        /\ ToolCalls[1].path = CreatePath(tool.name, tool.arguments[ParentKey(tool.name)].s)
        /\ "position" \in DOMAIN ToolCalls[1].body
        /\ ToolCalls[1].body["position"] = Num(65535)
        /\ ParentKey(tool.name) \notin DOMAIN ToolCalls[1].body
        /\ FailedCalls = {} => ToolAnswerIsResult

\* create_card without a position was posted under list L1 with position
\* 65535 and answered with a result
C18_Witness ==
    /\ ToolCreatesWithoutPosition
    /\ tool.name = "create_card"
    /\ ToolCalls[1].path = <<"lists", "L1", "cards">>
    /\ ToolCalls[1].body["position"].n = 65535
    /\ DOMAIN ToolCalls[1].body = {"name", "position", "description"}
    /\ ToolAnswerIsResult

\* C19: a tools/call naming a tool that callTool does not route is answered
\* with an error envelope and no result, no backing-service request is
\* issued, and the envelope's error class is a not-found one: its code is not
\* the internal-error code that a failed handler is answered with.
C19_UnknownTool ==
    (tool.called /\ ~IsTool(tool.name)) =>
        /\ ToolAnswerIsError
        /\ ~ToolAnswerIsResult
        /\ ToolCalls = <<>>
        /\ tool.envelope.error.code # InternalErrorCode

(* ------------------- claims about the notification -------------------- *)

\* the step reads notifications/initialized from stdin
StdioReadsNotification ==
    /\ StdioReadsOne
    /\ stdioLast'.body.json
    /\ MethodOf(DecodeRequest(stdioLast'.body)) = "notifications/initialized"

\* the step is worker w answering notifications/initialized over HTTP
HttpAnswersNotification(w) ==
    /\ pc[w] \in {"decode", "notify"}
    /\ pc'[w] = "idle"
    /\ out'.hasRequest
    /\ MethodOf(out'.request) = "notifications/initialized"

\* the session key is stored and its session is marked initialized
KeyReady(k) == k \in DOMAIN sessions /\ heap[sessions[k]].initialized

\* where a goroutine stands from accepting a POST to answering a notification
NotificationPath ==
    {"idle", "goc_rlock", "goc_read", "goc_lock", "goc_recheck", "goc_create",
     "decode", "notify"}

\* C20: notifications/initialized is accepted whatever the initialized flag
\* is and changes nothing. On stdio the loop goes on, writes nothing and
\* keeps its flag, so a request that is not a lifecycle message read next
\* while the flag is unset still makes StartStdio return an error. On HTTP
\* the answer is status 200 with one envelope of members jsonrpc, result and
\* id whose result is null; the answering step leaves the session table and
\* every session as they are, and no step a goroutine takes on the way from
\* accepting the POST to that answer makes any session key initialized or
\* uninitialized.
C20_NotificationChangesNothing ==
    /\ [][ StdioReadsNotification
             => /\ stdioLast'.outcome = "notification"
                /\ initialized' = initialized
                /\ stdioState' = "running"
                /\ stdoutCount' = stdoutCount
                /\ stdioLast'.written = <<>> ]_vars
    /\ [][ ( /\ stdioLast.outcome = "notification"
             /\ ~initialized
             /\ StdioReadsOne
             /\ stdioLast'.body.json
             /\ ~IsLifecycle(MethodOf(DecodeRequest(stdioLast'.body))) )
             => /\ stdioState' = "returned_err"
                /\ stdioLast'.written = <<>>
                /\ stdoutCount' = stdoutCount ]_vars
    /\ [][ \A w \in Workers :
             HttpAnswersNotification(w)
               => /\ out'.status = StatusOK
                  /\ out'.written =
                        <<Envelope({"jsonrpc", "result", "id"}, NullResult, NoError,
                                   out'.request.id)>>
                  /\ sessions' = sessions
                  /\ heap' = heap ]_vars
    /\ [][ \A w \in Workers :
             (pc[w] \in NotificationPath /\ pc'[w] # pc[w])
               => \A k \in DOMAIN sessions' :
                     (k \in DOMAIN sessions' /\ heap'[sessions'[k]].initialized)
                        <=> KeyReady(k) ]_vars

\* the second HTTP request accepted was notifications/initialized on a
\* session that is not initialized, and was acknowledged with a null result
C20_Witness ==
    /\ accepted = 2
    /\ OutAnswersRequest
    /\ MethodOf(out.request) = "notifications/initialized"
    /\ ~OutSession.initialized
    /\ out.status = StatusOK
    /\ out.written[1].result = NullResult

(* ------------------------- session independence ----------------------- *)

\* the goroutines that hold the mutex of a session, for reading or writing
Holders(m) == m.readers \cup ({m.writer} \ {""})

\* goroutine w stands at a Lock or RLock of its session's mutex
AtSessionLock(w) == pc[w] \in {"init_lock", "auto_lock", "chk_rlock"}

\* goroutine w holds its session's mutex for writing, about to set the flag
MarksReady(w) == pc[w] \in {"init_set", "auto_set"}

\* C21: HTTP sessions are independent. A step changes the initialized flag
\* of the session stored under key k only when it is taken by a goroutine
\* that serves a request of key k and stands at the assignment of the flag;
\* sessions stored under different keys are different objects; and a
\* goroutine that stands at a Lock or RLock of its session's mutex finds it
\* held only by goroutines that serve a request of the same key.
C21_SessionsIndependent ==
    /\ [][ \A k \in DOMAIN sessions :
             heap'[sessions[k]].initialized # heap[sessions[k]].initialized
               => \E w \in Workers :
                     /\ MarksReady(w) /\ pc'[w] # pc[w]
                     /\ frame[w].sessionID = k ]_vars
    /\ [](\A k \in DOMAIN sessions, l \in DOMAIN sessions :
             sessions[k] = sessions[l] => k = l)
    /\ [](\A w \in Workers :
             AtSessionLock(w)
               => \A h \in Holders(SessionOf(w).mu) :
                     frame[h].sessionID = frame[w].sessionID)

\* two sessions under different keys; one goroutine holds the mutex of its
\* session for writing while the other, serving the other key, stands at
\* the Lock of an uninitialized session whose mutex is free
C21_Witness ==
    \E v \in Workers, w \in Workers :
        /\ frame[v].sessionID # frame[w].sessionID
        /\ {frame[v].sessionID, frame[w].sessionID} \subseteq DOMAIN sessions
        /\ MarksReady(v)
        /\ pc[w] = "auto_lock"
        /\ ~SessionOf(w).initialized
        /\ CanLock(SessionOf(w).mu)

(* --------------------------- session identity ------------------------- *)

\* two requests identify the same caller: the same non-empty token, or no
\* token on either and the same peer address and User-Agent
SameIdentity(r1, r2) ==
    \/ r1.token # <<>> /\ r1.token = r2.token
    \/ /\ r1.token = <<>> /\ r2.token = <<>>
       /\ r1.remoteAddr = r2.remoteAddr
       /\ r1.userAgent = r2.userAgent

\* goroutine w has resolved the session of its request
Resolved(w) == frame[w].session # 0

\* C22: two requests being served resolve to the same session if and only
\* if they carry the same non-empty X-Session-Token, or both carry no token
\* and have the same remote address and User-Agent; so a request identified
\* by a token never shares a session with one identified by the fallback.
C22_SessionIdentity ==
    \A v \in Workers, w \in Workers :
        (Resolved(v) /\ Resolved(w))
          => (frame[v].session = frame[w].session <=> SameIdentity(frame[v].r, frame[w].r))

(* ------------------------ HTTP status of failures --------------------- *)

\* the envelope carries an error object and no result
IsErrorEnvelope(e) ==
    "error" \in e.members /\ "result" \notin e.members /\ e.error # NoError

\* the dispatcher returns an error for the request however the backing
\* service answers: unknown or missing method, missing params or tool name,
\* unknown tool, a handler that rejects its arguments
FailsInDispatch(request) == \A up \in Upstream : handleMCPRequest(request, up).err

\* the response answers a POST whose body did not decode
OutAnswersMalformed == out.httpMethod = "POST" /\ ~out.hasRequest

\* C23: on the HTTP call path a POST whose body decoded is answered with
\* status 200 and one envelope, and that envelope is an error envelope when
\* the dispatcher fails for the request (unknown or missing method, missing
\* params or tool name, unknown tool, rejected arguments) and whenever the
\* answer went out through the error path (which includes a handler whose
\* backing-service call failed); a status other than 200 is written only
\* for a method other than POST or a body that did not decode; and a body
\* that did not decode is answered with status 400 and one error envelope
\* whose id is null and whose error object is not.
C23_FailuresUnderStatusOK ==
    /\ OutAnswersRequest
         => /\ out.status = StatusOK
            /\ Len(out.written) = 1
            /\ (~IsLifecycle(MethodOf(out.request)) /\ FailsInDispatch(out.request))
                  => IsErrorEnvelope(out.written[1])
    /\ (out.status # 0 /\ out.status # StatusOK)
         => \/ out.httpMethod \notin {"POST", "OPTIONS"}
            \/ OutAnswersMalformed /\ out.body = Malformed
    /\ OutAnswersMalformed
         => /\ out.body = Malformed
            /\ out.status = StatusBadRequest
            /\ Len(out.written) = 1
            /\ IsErrorEnvelope(out.written[1])
            /\ out.written[1].id = NullId

\* the second request on an initialized session had a body that did not
\* decode and was answered 400 with an error envelope
C23_Witness ==
    /\ accepted = 2
    /\ OutAnswersMalformed
    /\ out.status = StatusBadRequest
    /\ IsErrorEnvelope(out.written[1])
    /\ OutSession.initialized

(* --------------------------- non-POST methods ------------------------- *)

\* the step accepts a request of the given method and answers it at once
AnswersAtOnce(method) == accepted' = accepted + 1 /\ out'.httpMethod = method

\* the step leaves the session tracker, every session and every handler in
\* flight as they are, and runs no tool handler
TouchesNothing ==
    /\ sessions' = sessions /\ heap' = heap /\ hmu' = hmu
    /\ pc' = pc /\ frame' = frame
    /\ ~out'.ran /\ tool' = tool

\* C24: on the call path an OPTIONS request is answered with status 200,
\* the Access-Control-Allow-Origin header and no body, and any other method
\* that is not POST with status 405; neither creates or modifies a session
\* or runs a tool; and every goroutine that is past the method check, in
\* the session tracker or the dispatcher, serves a POST.
C24_OnlyPostIsServed ==
    /\ [][ AnswersAtOnce("OPTIONS")
             => /\ out'.status = StatusOK /\ out'.cors /\ out'.written = <<>>
                /\ TouchesNothing ]_vars
    /\ [][ \A m \in HttpMethods \ {"POST", "OPTIONS"} :
             AnswersAtOnce(m)
               => /\ out'.status = StatusMethodNotAllowed /\ out'.written = <<>>
                  /\ TouchesNothing ]_vars
    /\ [][ accepted' = accepted + 1
             => \/ \E m \in HttpMethods \ {"POST"} : AnswersAtOnce(m)
                \/ \E w \in Workers :
                      pc[w] = "idle" /\ pc'[w] = "goc_rlock" /\ frame'[w].r.method = "POST" ]_vars
    /\ [](\A w \in Workers : pc[w] # "idle" => frame[w].r.method = "POST")

\* a GET is refused with 405 while a session exists and the handler of a
\* POST is in flight
C24_Witness ==
    /\ out.httpMethod = "GET"
    /\ out.status = StatusMethodNotAllowed
    /\ DOMAIN sessions # {}
    /\ \E w \in Workers : pc[w] # "idle"

(* ------------------------------ catalog ------------------------------- *)

\* the envelope is a tools/list result carrying the given descriptors
ListsTools(written, tools) ==
    /\ Len(written) = 1
    /\ written[1].result.type = "tools"
    /\ written[1].result.tools = tools

\* the stdio loop has just answered a tools/list request
StdioAnsweredToolsList ==
    /\ mode = "stdio" /\ stdioLast.outcome \in {"result", "error"}
    /\ MethodOf(DecodeRequest(stdioLast.body)) = "tools/list"

\* an HTTP handler has just answered a tools/list request
HttpAnsweredToolsList == OutAnswersRequest /\ MethodOf(out.request) = "tools/list"

\* C25: every tools/list, on either transport, whatever the session state
\* and whatever was served before, is answered with one result whose tools
\* are the descriptors of getTools in the order of getTools; and no name
\* occurs twice among them.
C25_CatalogDeterministic ==
    /\ StdioAnsweredToolsList => ListsTools(stdioLast.written, getTools)
    /\ HttpAnsweredToolsList => ListsTools(out.written, getTools)
    /\ Cardinality({getTools[i].name : i \in 1..Len(getTools)}) = Len(getTools)

\* the second HTTP request is a tools/list on a session that an earlier
\* request had already made ready
C25_Witness ==
    /\ accepted = 2
    /\ HttpAnsweredToolsList
    /\ out.initialized
    /\ ListsTools(out.written, getTools)

(* ----------------------- progress of the tracker ---------------------- *)

\* goroutine w holds the mutex, for reading or for writing
Holds(m, w) == w \in m.readers \/ m.writer = w

\* goroutine w holds the mutex of some session
HoldsSessionLock(w) == \E s \in 1..Len(heap) : Holds(heap[s].mu, w)

\* goroutine w is inside getOrCreateSession
InTracker(w) ==
    pc[w] \in {"goc_rlock", "goc_read", "goc_lock", "goc_recheck", "goc_create"}

\* goroutine w is reading or setting the flag of its session
AtFlag(w) ==
    pc[w] \in {"init_lock", "init_set", "chk_rlock", "chk_read", "auto_lock", "auto_set"}

\* the steps the Go scheduler and sync.RWMutex let a goroutine take: the
\* lock operations and the statements between them. Accepting a request,
\* reading its body and the call of the dispatcher, which waits for the
\* backing service, are left out: they may never happen.
TrackerStep(w) ==
    \/ getOrCreateSession(w)
    \/ InitLock(w) \/ InitSet(w)
    \/ ChkRLock(w) \/ ChkRead(w)
    \/ AutoLock(w) \/ AutoSet(w)

HttpInit == Init /\ mode = "http"

\* decoder.Decode(&request) of a body without id and params: the locks a
\* handler takes depend on the method of the request and on its session only
LiveDecode(w) ==
    /\ HttpDecode(w)
    /\ frame'[w].body.id = AbsentId
    /\ frame'[w].body.params = NoParams

LiveNext ==
    \E w \in Workers :
        \/ HttpOptions(w)
        \/ HttpNotPost(w)
        \/ HttpPost(w)
        \/ getOrCreateSession(w)
        \/ HttpDecodeFail(w)
        \/ LiveDecode(w)
        \/ InitLock(w)
        \/ InitSet(w)
        \/ HttpNotification(w)
        \/ ChkRLock(w)
        \/ ChkRead(w)
        \/ AutoLock(w)
        \/ AutoSet(w)
        \/ HttpDispatch(w)

LiveSpec == HttpInit /\ [][LiveNext]_vars /\ \A w \in Workers : WF_vars(TrackerStep(w))

\* C26: a goroutine never holds the session map's lock together with a
\* session's lock; it holds the map's lock only inside getOrCreateSession
\* and a session's lock only around the read or the assignment of the flag,
\* so none while it reads the body or calls the dispatcher; and whatever
\* the other goroutines do, even if one never returns from the dispatcher,
\* every getOrCreateSession returns and every read or update of a flag
\* completes.
C26_TrackerNeverBlocks ==
    /\ [](\A w \in Workers :
            /\ ~(Holds(hmu, w) /\ HoldsSessionLock(w))
            /\ Holds(hmu, w) => pc[w] \in {"goc_read", "goc_recheck", "goc_create"}
            /\ HoldsSessionLock(w) => pc[w] \in {"init_set", "chk_read", "auto_set"})
    /\ \A w \in Workers : InTracker(w) ~> pc[w] = "decode"
    /\ \A w \in Workers : AtFlag(w) ~> pc[w] \in {"idle", "dispatch"}

\* one goroutine stands at the call of the dispatcher while the other waits
\* for the write lock of the same session
C26_Witness ==
    \E v \in Workers, w \in Workers :
        /\ pc[v] = "dispatch"
        /\ pc[w] \in {"init_lock", "auto_lock"}
        /\ frame[v].session = frame[w].session

(* ------------------------ order of stdio answers ---------------------- *)

\* the step reads a decodable message other than notifications/initialized
\* while the loop is initialized
StdioServesRequest ==
    /\ initialized /\ StdioReadsOne
    /\ stdioLast'.body.json
    /\ MethodOf(DecodeRequest(stdioLast'.body)) # "notifications/initialized"

\* the envelopes that answer a request: the initialize result, or what the
\* dispatcher yields for it
StdioAnswers(request) ==
    IF MethodOf(request) = "initialize" THEN {buildInitializeResponse(request.id)}
    ELSE DispatchEnvelopes(request)

\* C27: on stdio, once initialized, the step that reads a request other
\* than notifications/initialized also writes exactly one envelope, a
\* result or an error that answers that request, before anything else is
\* read, and leaves the loop running; every step writes as many envelopes
\* as stdout grows by, so the answers come out in the order of the
\* requests; and end of input makes StartStdio return nil, writing nothing.
C27_OneAnswerInOrder ==
    /\ [][ StdioServesRequest
             => /\ Len(stdioLast'.written) = 1
                /\ ExactlyOne(stdioLast'.written[1])
                /\ stdioLast'.written[1] \in StdioAnswers(DecodeRequest(stdioLast'.body))
                /\ stdioState' = "running" ]_vars
    /\ [][ mode = "stdio" /\ stdioLast' # stdioLast
             => /\ stdoutCount' = stdoutCount + Len(stdioLast'.written)
                /\ Len(stdioLast'.written) <= 1 ]_vars
    /\ [][ (mode = "stdio" /\ stdioLast'.outcome = "eof" /\ stdioLast.outcome # "eof")
             => /\ stdioState' = "returned_nil"
                /\ stdioLast'.written = <<>> ]_vars

\* the third message read is a request whose handling failed: it got its
\* error envelope, the third envelope on stdout, and the loop goes on
C27_Witness ==
    /\ initialized
    /\ stdioReads = 3 /\ stdoutCount = 3
    /\ stdioLast.outcome = "error"
    /\ Len(stdioLast.written) = 1
    /\ stdioState = "running"

(* ------------------------- sessions are kept -------------------------- *)

\* goroutine w has returned from getOrCreateSession
PastTracker(w) == pc[w] \notin {"idle"} /\ ~InTracker(w)

\* C28: no step removes a key from the session table or stores another
\* session object under a key it holds, and no step changes which objects
\* exist; a goroutine that has returned from getOrCreateSession finds its
\* key in the table with the session it was given; and once a POST has been
\* answered, whatever the answer, also 400 for a body that did not decode,
\* the table holds an entry for its key.
C28_NeverEvicted ==
    /\ [][ /\ \A k \in DOMAIN sessions :
                k \in DOMAIN sessions' /\ sessions'[k] = sessions[k]
           /\ Len(heap') >= Len(heap) ]_vars
    /\ [](\A w \in Workers :
            PastTracker(w)
              => /\ frame[w].sessionID \in DOMAIN sessions
                 /\ sessions[frame[w].sessionID] = frame[w].session)
    /\ [](out.httpMethod = "POST"
            => /\ out.sessionID \in DOMAIN sessions
               /\ sessions[out.sessionID] \in 1..Len(heap))

\* the only request so far had a body that did not decode; it was answered
\* 400 and the session created for its key is in the table
C28_Witness ==
    /\ accepted = 1
    /\ OutAnswersMalformed
    /\ out.sessionID \in DOMAIN sessions
    /\ ~OutSession.initialized

(* ------------------------- supplied positions ------------------------- *)

PositionedTools == {"create_list", "create_card", "create_task"}

\* a creation tool that takes a position was called and issued its POST
ToolCreated ==
    /\ tool.called /\ tool.name \in PositionedTools
    /\ Len(ToolCalls) = 1 /\ ToolCalls[1].method = "POST"

\* C29: when create_list, create_card or create_task is called with a
\* number as position, the POST it issues carries that number as position;
\* and the position of the POST is 65535 only when the caller supplied no
\* position.
C29_PositionForwarded ==
    ToolCreated =>
        /\ Is(tool.arguments, "position", "number")
             => ToolCalls[1].body["position"] = tool.arguments["position"]
        /\ ToolCalls[1].body["position"] = Num(DefaultPosition)
             => "position" \notin DOMAIN tool.arguments

(* ---------------------- catalog and dispatcher ------------------------ *)

\* the names tools/list returns
Listed == {getTools[i].name : i \in 1..Len(getTools)}

\* the names the switch of callTool has a case for
Routed == {ToolNames[i] : i \in 1..Len(ToolNames)}

\* the call ended in the default case of callTool
ToolWasUnknown ==
    tool.res.err /\ tool.res.message = <<"unknown tool", tool.name>>

\* C30: the names tools/list returns are the names callTool has a case
\* for; a tools/call of a listed name reaches its handler and never fails
\* as an unknown tool, and a tools/call of any other name does.
C30_CatalogMatchesDispatcher ==
    /\ Listed = Routed
    /\ tool.called => (tool.name \in Listed <=> ~ToolWasUnknown)
    /\ tool.called => (tool.name \in Listed <=> IsTool(tool.name))

\* the last tool of the catalog was called and answered with a result
C30_Witness ==
    /\ tool.called
    /\ tool.name = getTools[Len(getTools)].name
    /\ ToolAnswerIsResult

====
